---- MODULE Spec2Model ----
(***************************************************************************)
(* A model of the JARVIS command pipeline: the NLP resolver                *)
(* (jarvis/core/nlp_processor.py), the command validator and dispatcher    *)
(* (jarvis/core/command_dispatcher.py) and the event loop                  *)
(* (jarvis/core/event_loop.py).                                            *)
(*                                                                         *)
(* Conventions.  A text is a sequence of tokens; the token " " stands for  *)
(* surplus whitespace.  A confidence is an integer number of hundredths    *)
(* (0.3 is 30).  An entity value is a tagged record (Str, Num, NoneV) so   *)
(* that a string, a number and None stay distinct.                         *)
(***************************************************************************)
EXTENDS Integers, Sequences, FiniteSets, TLC

VARIABLES
    (* CommandValidator applied to one command (SpecValidate) *)
    vIn, vCmd, vOut,
    (* CommandDispatcher *)
    command_history, commands_executed, commands_failed, last_command_time,
    history_lock, dPc, dCmd, dResult, dTimedOut, curInv, running, hOutcome,
    invoked, nCalls, now,
    (* NLPProcessor *)
    use_openai, cache_responses, cache, requests_made, cache_hits, remoteCalls,
    nPc, nText, nOut, nVia, nFound, lastRemote, nlpCalls, cache_file,
    (* EventLoop *)
    command_queue, processing_command, commands_processed, loop_commands_failed,
    sensitive_commands_hotkey_only, pPc, pItem, cPc, cItem, cResult,
    feedback, heard, enqueued, processed, dropped, busySpoken,
    stop_event, hotkey_thread, loop_shutdown

validatorVars == <<vIn, vCmd, vOut>>

dispatcherVars == <<command_history, commands_executed, commands_failed,
                    last_command_time, history_lock, dPc, dCmd, dResult,
                    dTimedOut, curInv, running, hOutcome, invoked, nCalls>>

nlpVars == <<use_openai, cache_responses, cache, requests_made, cache_hits,
             remoteCalls, nPc, nText, nOut, nVia, nFound, lastRemote, nlpCalls,
             cache_file>>

loopVars == <<command_queue, processing_command, commands_processed,
              loop_commands_failed, sensitive_commands_hotkey_only, pPc, pItem,
              cPc, cItem, cResult, feedback, heard, enqueued, processed,
              dropped, busySpoken, stop_event, hotkey_thread, loop_shutdown>>

vars == <<validatorVars, dispatcherVars, nlpVars, loopVars, now>>

None == "None"

\* the absent value of a record-valued variable
Nil == [nil |-> TRUE]

(***************************************************************************)
(* Texts                                                                   *)
(***************************************************************************)

\* str.lower() on one token
LowerTok(t) ==
    CASE t = "Chrome" -> "chrome"
      [] t = "CMD" -> "cmd"
      [] t = "Open" -> "open"
      [] t = "Minutes" -> "minutes"
      [] OTHER -> t

\* a comparison that keeps the case of its operand
Lower_Identity(s) == s

\* str.lower()
Lower(s) == [i \in 1..Len(s) |-> LowerTok(s[i])]

RECURSIVE LStrip(_)
LStrip(s) == IF s # <<>> /\ Head(s) = " " THEN LStrip(Tail(s)) ELSE s

RECURSIVE RStrip(_)
RStrip(s) ==
    IF s # <<>> /\ s[Len(s)] = " " THEN RStrip(SubSeq(s, 1, Len(s) - 1)) ELSE s

\* str.strip()
Strip(s) == RStrip(LStrip(s))

\* "x in s" for a substring x that is a whole token or the stem of one
Contains(s, stems) == \E i \in 1..Len(s) : s[i] \in stems

(***************************************************************************)
(* Entity values and commands (CommandResult)                              *)
(***************************************************************************)

Str(s) == [type |-> "str", s |-> s, n |-> 0]
Num(n) == [type |-> "num", s |-> <<>>, n |-> n]
NoneV == [type |-> "none", s |-> <<>>, n |-> 0]

\* dict.get(key, default)
Get(entities, key, default) ==
    IF key \in DOMAIN entities THEN entities[key] ELSE default

NoEntities == [k \in {} |-> NoneV]

Cmd(intent, entities, confidence, rc, raw, method) ==
    [intent |-> intent, entities |-> entities, confidence |-> confidence,
     requires_confirmation |-> rc, raw_text |-> raw, processing_method |-> method]

(***************************************************************************)
(* ExecutionResult                                                         *)
(***************************************************************************)

Result(success, error, origin) ==
    [success |-> success, error |-> error, origin |-> origin]

(***************************************************************************)
(* CommandValidator                                                        *)
(***************************************************************************)

MinConfidence == 30

MaxTimerMinutes == 1440

MaxTimerHours == 24

MaxQueryLength == 1000

Accept == [kind |-> "ok", reason |-> None]
Reject(reason) == [kind |-> "reject", reason |-> reason]
\* an exception escaping the validator (an attribute of a non-string)
Raise(what) == [kind |-> "raise", reason |-> what]

dangerous_apps == {<<"regedit">>, <<"cmd">>, <<"powershell">>, <<"terminal">>, <<"taskmgr">>}

\* the validator of open_app without the comparison against dangerous_apps
_validate_open_app_NoDenylist(command) ==
    LET v == Get(command.entities, "app_name", Str(<<>>)) IN
    IF v.type # "str" THEN Raise("AttributeError")
    ELSE IF Strip(v.s) = <<>> THEN Reject("Application name required")
         ELSE Accept

_validate_open_app(command) ==
    LET v == Get(command.entities, "app_name", Str(<<>>)) IN
    IF v.type # "str" THEN Raise("AttributeError")
    ELSE LET app_name == Strip(v.s) IN
         IF app_name = <<>> THEN Reject("Application name required")
         ELSE IF Lower(app_name) \in {Lower(app) : app \in dangerous_apps}
              THEN Reject("Cannot open app for security reasons")
              ELSE Accept

_validate_close_app(command) ==
    LET v == Get(command.entities, "app_name", Str(<<>>)) IN
    IF v.type # "str" THEN Raise("AttributeError")
    ELSE IF Strip(v.s) = <<>> THEN Reject("Application name required")
         ELSE Accept

\* "@" in recipient and "." in recipient.split("@")[-1], per token
EmailShaped(recipient) ==
    \E i \in 1..Len(recipient) : recipient[i] \in {"bob@example.com"}

HasAt(recipient) ==
    \E i \in 1..Len(recipient) : recipient[i] \in {"bob@example.com", "bob@localhost"}

_validate_send_email(command) ==
    LET r == Get(command.entities, "recipient", Str(<<>>))
        m == Get(command.entities, "message", Str(<<>>)) IN
    IF r.type # "str" \/ m.type # "str" THEN Raise("AttributeError")
    ELSE IF Strip(r.s) = <<>> THEN Reject("Email recipient required")
    ELSE IF Strip(m.s) = <<>> THEN Reject("Email message required")
    ELSE IF ~HasAt(Strip(r.s)) \/ ~EmailShaped(Strip(r.s))
         THEN Reject("Invalid email address")
         ELSE Accept

_validate_system_command_NoCheck(command) == Accept

\* the validator of system commands with its test inverted
_validate_system_command_Inverted(command) ==
    IF command.requires_confirmation
    THEN Reject("System commands require confirmation")
    ELSE Accept

_validate_system_command(command) ==
    IF ~command.requires_confirmation
    THEN Reject("System commands require confirmation")
    ELSE Accept

_validate_timer_command(command) ==
    LET time_value == Get(command.entities, "time_value", NoneV)
        time_unit == Get(command.entities, "time_unit", Str(<<>>)) IN
    IF time_value.type # "num" \/ time_value.n = 0 THEN Reject("Invalid time value")
    ELSE IF time_value.n <= 0 THEN Reject("Time must be positive")
    ELSE IF time_unit.type # "str" THEN Raise("AttributeError")
    ELSE IF Contains(Lower(time_unit.s), {"minute", "minutes"})
         THEN IF time_value.n > MaxTimerMinutes
              THEN Reject("Timer cannot exceed 24 hours") ELSE Accept
    ELSE IF Contains(Lower(time_unit.s), {"hour", "hours"})
         THEN IF time_value.n > MaxTimerHours
              THEN Reject("Timer cannot exceed 24 hours") ELSE Accept
    ELSE Accept

\* len(query): the token "<long>" stands for a run of 1001 characters
CharLen(s) == IF Contains(s, {"<long>"}) THEN MaxQueryLength + 1 ELSE Len(s)

_validate_search_command(command) ==
    LET q == Get(command.entities, "query", Str(<<>>)) IN
    IF q.type # "str" THEN Raise("AttributeError")
    ELSE IF Strip(q.s) = <<>> THEN Reject("Search query required")
    ELSE IF CharLen(Strip(q.s)) > MaxQueryLength THEN Reject("Search query too long")
    ELSE Accept

validate_command(command) ==
    IF command.confidence < MinConfidence THEN Reject("Command confidence too low")
    ELSE IF command.intent = "unknown" THEN Reject("Unknown command intent")
    ELSE IF command.intent = "open_app" THEN _validate_open_app(command)
    ELSE IF command.intent = "close_app" THEN _validate_close_app(command)
    ELSE IF command.intent = "send_email" THEN _validate_send_email(command)
    ELSE IF command.intent \in {"shutdown_system", "restart_system"}
         THEN _validate_system_command(command)
    ELSE IF command.intent = "set_timer" THEN _validate_timer_command(command)
    ELSE IF command.intent \in {"search_web", "search_youtube", "search_wikipedia"}
         THEN _validate_search_command(command)
    ELSE Accept

(***************************************************************************)
(* SpecValidate: validate_command applied to one command drawn from a      *)
(* bounded set of commands.                                                *)
(***************************************************************************)

ValidatorIntents ==
    {"open_app", "close_app", "send_email", "shutdown_system", "restart_system",
     "set_timer", "search_web", "general_query", "unknown", "get_time"}

ValidatorEntities ==
    {NoEntities,
     [app_name |-> Str(<<"chrome">>)],
     [app_name |-> Str(<<" ", "CMD", " ">>)],
     [app_name |-> Str(<<" ">>)],
     [app_name |-> Num(7)],
     [time_value |-> Num(5), time_unit |-> Str(<<"Minutes">>)],
     [time_value |-> Num(1441), time_unit |-> Str(<<"minutes">>)],
     [time_value |-> Num(25), time_unit |-> Str(<<"hours">>)],
     [time_value |-> Num(90000), time_unit |-> Str(<<"seconds">>)],
     [time_value |-> Num(2), time_unit |-> Str(<<"days">>)],
     [time_value |-> Num(2000)],
     [time_value |-> Num(0), time_unit |-> Str(<<"minutes">>)],
     [time_value |-> Num(5), time_unit |-> NoneV],
     [time_value |-> Str(<<"5">>), time_unit |-> Str(<<"minutes">>)],
     [query |-> Str(<<"cats">>)],
     [query |-> Str(<<"<long>">>)],
     [query |-> NoneV],
     [recipient |-> Str(<<"bob@example.com">>), message |-> Str(<<"hi">>)],
     [recipient |-> Str(<<"bob@localhost">>), message |-> Str(<<"hi">>)]}

ValidatorConfidences == {0, 29, 30, 70, 100}

ValidatorCommands ==
    {Cmd(i, e, c, rc, <<>>, "openai") :
        i \in ValidatorIntents, e \in ValidatorEntities,
        c \in ValidatorConfidences, rc \in BOOLEAN}

(***************************************************************************)
(* NLPProcessor: state                                                     *)
(***************************************************************************)

\* the utterances passed to NLPProcessor.process_command
NlpTexts ==
    {<<>>, <<" ">>, <<"open", "chrome">>, <<" ", "Open", "Chrome">>, <<"count", "sheep">>}

\* _get_cache_key: the MD5 digest of the lower-cased text; texts that differ
\* after lower-casing are taken to have different digests
_get_cache_key(text) == Lower(text)

NlpKeys == {_get_cache_key(Strip(t)) : t \in NlpTexts} \ {<<>>}

NoEntry == [present |-> FALSE, response |-> Nil, created_at |-> 0, ttl_hours |-> 0]

\* CachedResponse
Entry(response, created_at, ttl_hours) ==
    [present |-> TRUE, response |-> response, created_at |-> created_at,
     ttl_hours |-> ttl_hours]

\* the content of nlp_cache.json: absent, not JSON, or the items of the JSON
\* object in the order of the file
CacheFile(state, items) == [state |-> state, items |-> items]

\* NLPProcessor.__init__ and initialize under a configuration; openai_client is
\* set exactly when use_openai is, and there is no cache file
NlpInit(openai, caching) ==
    /\ cache_file = CacheFile("absent", <<>>)
    /\ use_openai = openai
    /\ cache_responses = caching
    /\ cache = [k \in NlpKeys |-> NoEntry]
    /\ requests_made = 0
    /\ cache_hits = 0
    /\ remoteCalls = 0
    /\ nPc = "idle"
    /\ nText = <<>>
    /\ nOut = Nil
    /\ nVia = "none"
    /\ nFound = NoEntry
    /\ lastRemote = [t \in NlpTexts |-> Nil]
    /\ nlpCalls = 0

(***************************************************************************)
(* EventLoop: state                                                        *)
(***************************************************************************)

\* the producers: the wake-word thread and the hotkey callback, named by the
\* source they tag their utterances with
Sources == {"wake_word", "hotkey"}

\* EventLoop.__init__ under a configuration in which the attribute
\* privacy.sensitive_commands_hotkey_only is "unset", "true" or "false";
\* heard, enqueued and dropped count the utterances the producers recognised,
\* added to the queue and gave up; processed lists those the consumer took,
\* each by its number in the order of the additions; busySpoken counts the
\* busy messages; the stop event is clear and the hotkey thread has registered
\* the hotkey with the library that could be imported: with keyboard it is in
\* keyboard.wait(), with pynput it is in its loop
LoopInit(hotkey_only, library) ==
    /\ stop_event = FALSE
    /\ loop_shutdown = FALSE
    /\ hotkey_thread = IF library = "keyboard" THEN "wait" ELSE "alive"
    /\ command_queue = <<>>
    /\ processing_command = FALSE
    /\ commands_processed = 0
    /\ loop_commands_failed = 0
    /\ sensitive_commands_hotkey_only = hotkey_only
    /\ pPc = [src \in Sources |-> "listen"]
    /\ pItem = [src \in Sources |-> Nil]
    /\ cPc = "get"
    /\ cItem = Nil
    /\ cResult = Nil
    /\ feedback = "none"
    /\ heard = 0
    /\ enqueued = 0
    /\ processed = <<>>
    /\ dropped = 0
    /\ busySpoken = 0

DispatcherInit ==
    /\ command_history = <<>>
    /\ commands_executed = 0
    /\ commands_failed = 0
    /\ last_command_time = <<>>
    /\ history_lock = "free"
    /\ dPc = "idle"
    /\ dCmd = Nil
    /\ dResult = Nil
    /\ dTimedOut = FALSE
    /\ curInv = 0
    /\ running = {}
    /\ hOutcome = Nil
    /\ invoked = <<>>
    /\ nCalls = 0

InitValidate ==
    /\ vIn \in ValidatorCommands
    /\ vCmd = vIn
    /\ vOut = Nil
    /\ DispatcherInit
    /\ NlpInit(FALSE, FALSE)
    /\ LoopInit("true", "keyboard")
    /\ now = 0

\* validator.validate_command(command): the command is only read
Validate ==
    /\ vOut = Nil
    /\ vOut' = validate_command(vCmd)
    /\ vCmd' = vCmd
    /\ UNCHANGED <<vIn, dispatcherVars, nlpVars, loopVars, now>>

NextValidate == Validate

SpecValidate == InitValidate /\ [][NextValidate]_vars

(* C2: every command whose intent is shutdown_system or restart_system and *)
(* whose requires_confirmation is false is rejected by validate_command,   *)
(* whatever its confidence (>= 0.3) and entities, and the command that was *)
(* validated is still the command that was passed in.                      *)
C2_SystemCommandRejected ==
    (/\ vOut # Nil
     /\ vIn.intent \in {"shutdown_system", "restart_system"}
     /\ ~vIn.requires_confirmation
     /\ vIn.confidence >= MinConfidence)
    => /\ vOut.kind = "reject"
       /\ vOut.reason = "System commands require confirmation"
       /\ vCmd = vIn

C2_Witness ==
    /\ vOut # Nil
    /\ vIn.intent = "restart_system"
    /\ ~vIn.requires_confirmation
    /\ vIn.confidence = 100
    /\ vIn.entities # NoEntities
    /\ vOut.kind = "reject"

(* C29: validate_command accepts a set_timer command (of sufficient        *)
(* confidence, with a textual or missing time_unit) exactly when its       *)
(* time_value is a number greater than 0 and not above 24 hours counted in *)
(* the command's unit: 1440 minutes, 24 hours, 86400 seconds, 1 day, and   *)
(* 1440 of the minutes a command without a unit is taken to mean.          *)
C29_TimerCappedInEveryUnit ==
    LET time_value == Get(vIn.entities, "time_value", NoneV)
        time_unit == Get(vIn.entities, "time_unit", Str(<<>>))
        unit == Lower(time_unit.s)
        day == CASE Contains(unit, {"minute", "minutes"}) -> MaxTimerMinutes
                 [] Contains(unit, {"hour", "hours"}) -> MaxTimerHours
                 [] Contains(unit, {"second", "seconds"}) -> MaxTimerMinutes * 60
                 [] Contains(unit, {"day", "days"}) -> 1
                 [] OTHER -> MaxTimerMinutes
    IN
    (/\ vOut # Nil
     /\ vIn.intent = "set_timer"
     /\ vIn.confidence >= MinConfidence
     /\ time_unit.type = "str")
    => (vOut.kind = "ok"
        <=> (time_value.type = "num" /\ time_value.n > 0 /\ time_value.n <= day))

(***************************************************************************)
(* CommandDispatcher                                                       *)
(***************************************************************************)

\* capacity of command_history; the code keeps 100 entries, the model fewer
MaxHistorySize == 2

\* number of dispatch_command calls explored
MaxCalls == 3

\* last value of the clock
MaxTime == 1

\* the intents get_command_handlers maps to a handler
HandlerIntents ==
    {"open_app", "close_app", "get_weather", "get_news", "search_web",
     "search_youtube", "search_wikipedia", "send_email", "play_music",
     "pause_resume_music", "next_track", "previous_track", "set_reminder",
     "set_timer", "get_time", "get_date", "shutdown_system", "restart_system",
     "get_system_info", "adjust_volume", "general_query"}

\* what a handler thread ends with: an ExecutionResult, another value, an exception
HOut(kind, res) == [kind |-> kind, res |-> res]

HandlerOutcomes ==
    {HOut("result", Result(TRUE, None, "handler")),
     HOut("result", Result(FALSE, "handler failed", "handler")),
     HOut("result", Result(FALSE, None, "handler")),
     HOut("value", Result(TRUE, None, "wrapped")),
     HOut("raise", Result(FALSE, "handler exception", "execute_except"))}

ConfirmationResult == Result(FALSE, "Confirmation required", "confirmation")

TimeoutResult == Result(FALSE, "Command timeout", "timeout")

Execute == [success |-> FALSE, error |-> None, origin |-> "execute"]

\* dispatch_command without the confirmation requirement check
PreCheck_NoGate(command) ==
    LET v == validate_command(command) IN
    IF v.kind = "raise" THEN Result(FALSE, v.reason, "exception")
    ELSE IF v.kind = "reject" THEN Result(FALSE, v.reason, "validation")
    ELSE IF command.intent \notin HandlerIntents
         THEN Result(FALSE, "Unknown command intent", "no_handler")
    ELSE Execute

\* dispatch_command with the confirmation requirement checked first
PreCheck_ConfirmFirst(command) ==
    LET v == validate_command(command) IN
    IF command.requires_confirmation THEN ConfirmationResult
    ELSE IF v.kind = "raise" THEN Result(FALSE, v.reason, "exception")
    ELSE IF v.kind = "reject" THEN Result(FALSE, v.reason, "validation")
    ELSE IF command.intent \notin HandlerIntents
         THEN Result(FALSE, "Unknown command intent", "no_handler")
    ELSE Execute

\* dispatch_command without the validation failure's early return
PreCheck_NoReject(command) ==
    LET v == validate_command(command) IN
    IF v.kind = "raise" THEN Result(FALSE, v.reason, "exception")
    ELSE IF command.intent \notin HandlerIntents
         THEN Result(FALSE, "Unknown command intent", "no_handler")
    ELSE IF command.requires_confirmation THEN ConfirmationResult
    ELSE Execute

\* dispatch_command without the handler lookup's early return
PreCheck_NoLookup(command) ==
    LET v == validate_command(command) IN
    IF v.kind = "raise" THEN Result(FALSE, v.reason, "exception")
    ELSE IF v.kind = "reject" THEN Result(FALSE, v.reason, "validation")
    ELSE IF command.requires_confirmation THEN ConfirmationResult
    ELSE Execute

\* dispatch_command up to the handler's execution: validation, handler lookup,
\* confirmation requirement; Execute when the handler is to be run
PreCheck(command) ==
    LET v == validate_command(command) IN
    IF v.kind = "raise" THEN Result(FALSE, v.reason, "exception")
    ELSE IF v.kind = "reject" THEN Result(FALSE, v.reason, "validation")
    ELSE IF command.intent \notin HandlerIntents
         THEN Result(FALSE, "Unknown command intent", "no_handler")
    ELSE IF command.requires_confirmation THEN ConfirmationResult
    ELSE Execute

\* _record_command without the limit of the history size
Recorded_Unbounded(history, entry) == Append(history, entry)

\* _record_command putting the entry in front of the list
Recorded_InFront(history, entry) ==
    LET h == <<entry>> \o history IN
    IF Len(h) > MaxHistorySize
    THEN SubSeq(h, Len(h) - MaxHistorySize + 1, Len(h))
    ELSE h

\* _record_command's list update
Recorded(history, entry) ==
    LET h == Append(history, entry) IN
    IF Len(h) > MaxHistorySize
    THEN SubSeq(h, Len(h) - MaxHistorySize + 1, Len(h))
    ELSE h

\* an early return of dispatch_command with _record_command as well
EarlyReturn_Recorded(history, entry) == Recorded(history, entry)

\* command_history after an early return of dispatch_command (validation
\* failure, exception, no handler, confirmation required): the return
\* statements come before the call of _record_command
EarlyReturn(history, entry) == history

\* dispatch_command(command), from its entry to the submission of the handler
\* to the worker thread or to an early return
dispatch_command(command) ==
    /\ dCmd' = command
    /\ dTimedOut' = FALSE
    /\ LET pre == PreCheck(command) IN
       IF pre = Execute
       THEN /\ curInv' = curInv + 1
            /\ running' = running \cup {curInv + 1}
            /\ invoked' = Append(invoked, command)
            /\ hOutcome' = Nil
            /\ dResult' = Nil
            /\ dPc' = "waiting"
            /\ UNCHANGED <<commands_failed, command_history>>
       ELSE /\ dResult' = pre
            /\ command_history' =
                   EarlyReturn(command_history, [command |-> command, result |-> pre])
            /\ dPc' = "returned"
            /\ commands_failed' =
                   IF pre.origin = "exception" THEN commands_failed + 1
                   ELSE commands_failed
            /\ UNCHANGED <<curInv, running, invoked, hOutcome>>
    /\ UNCHANGED <<commands_executed, last_command_time, now, nlpVars>>

\* a handler running in a worker thread returns or raises
HandlerFinish ==
    \E inv \in running, out \in HandlerOutcomes :
        /\ running' = running \ {inv}
        /\ hOutcome' = IF inv = curInv /\ ~dTimedOut THEN out ELSE hOutcome
        /\ UNCHANGED <<validatorVars, nlpVars, loopVars, command_history, commands_executed,
                       commands_failed, last_command_time, history_lock, dPc,
                       dCmd, dResult, dTimedOut, curInv, invoked, nCalls, now>>

\* _execute_with_timeout: future.result(timeout) returns the handler's value
\* or re-raises its exception
FutureResult ==
    /\ dPc = "waiting"
    /\ hOutcome # Nil
    /\ dResult' = hOutcome.res
    /\ dPc' = "exiting"
    /\ UNCHANGED <<validatorVars, nlpVars, loopVars, command_history, commands_executed,
                   commands_failed, last_command_time, history_lock, dCmd,
                   dTimedOut, curInv, running, hOutcome, invoked, nCalls, now>>

\* _execute_with_timeout: future.result(timeout) raises TimeoutError while the
\* handler is still running; future.cancel() does not stop a running call
FutureTimeout ==
    /\ dPc = "waiting"
    /\ hOutcome = Nil
    /\ dResult' = TimeoutResult
    /\ dTimedOut' = TRUE
    /\ dPc' = "exiting"
    /\ UNCHANGED <<validatorVars, nlpVars, loopVars, command_history, commands_executed,
                   commands_failed, last_command_time, history_lock, dCmd,
                   curInv, running, hOutcome, invoked, nCalls, now>>

\* leaving "with ThreadPoolExecutor(...)" without joining the worker
ExecutorJoined_NoWait == TRUE

\* leaving "with ThreadPoolExecutor(...)": shutdown(wait=True) returns once the
\* worker thread has finished the handler
ExecutorJoined == curInv \notin running

ExecutorExit ==
    /\ dPc = "exiting"
    /\ ExecutorJoined
    /\ dPc' = "recording"
    /\ UNCHANGED <<validatorVars, nlpVars, loopVars, command_history, commands_executed,
                   commands_failed, last_command_time, history_lock, dCmd,
                   dResult, dTimedOut, curInv, running, hOutcome, invoked,
                   nCalls, now>>

\* a return that also counts a failed result among the failed commands
RecordAndReturn_CountsFailure ==
    /\ dPc = "recording"
    /\ history_lock = "free"
    /\ command_history' = Recorded(command_history, [command |-> dCmd, result |-> dResult])
    /\ commands_executed' = commands_executed + 1
    /\ commands_failed' = IF dResult.success THEN commands_failed ELSE commands_failed + 1
    /\ last_command_time' = <<now>>
    /\ dPc' = "returned"
    /\ UNCHANGED <<validatorVars, nlpVars, loopVars, history_lock, dCmd, dResult,
                   dTimedOut, curInv, running, hOutcome, invoked, nCalls, now>>

\* dispatch_command after _execute_with_timeout: _record_command under
\* history_lock, the statistics, the return
RecordAndReturn ==
    /\ dPc = "recording"
    /\ history_lock = "free"
    /\ command_history' = Recorded(command_history, [command |-> dCmd, result |-> dResult])
    /\ commands_executed' = commands_executed + 1
    /\ last_command_time' = <<now>>
    /\ dPc' = "returned"
    /\ UNCHANGED <<validatorVars, nlpVars, loopVars, commands_failed, history_lock, dCmd, dResult,
                   dTimedOut, curInv, running, hOutcome, invoked, nCalls, now>>

\* the clock
Tick ==
    /\ now < MaxTime
    /\ now' = now + 1
    /\ UNCHANGED <<validatorVars, nlpVars, loopVars, command_history, commands_executed,
                   commands_failed, last_command_time, history_lock, dPc, dCmd,
                   dResult, dTimedOut, curInv, running, hOutcome, invoked, nCalls>>

\* a scan from the oldest entry on: the index of the oldest successful entry
LastSuccessful_Oldest(history) ==
    LET ok == {i \in 1..Len(history) : history[i].result.success} IN
    IF ok = {} THEN 0 ELSE CHOOSE i \in ok : \A j \in ok : i <= j

\* for entry in reversed(command_history): the index of the first entry whose
\* result is successful; 0 when there is none
LastSuccessful(history) ==
    LET ok == {i \in 1..Len(history) : history[i].result.success} IN
    IF ok = {} THEN 0 ELSE CHOOSE i \in ok : \A j \in ok : j <= i

\* _create_undo_command(original_command), for the intents it reverses
_create_undo_command(original_command) ==
    LET \* the text of entities.get('app_name', '') in the f-string of raw_text
        v == Get(original_command.entities, "app_name", Str(<<>>))
        app_name == IF v.type = "str" THEN v.s ELSE <<>>
    IN
    CASE original_command.intent = "open_app" ->
             Cmd("close_app", original_command.entities, original_command.confidence,
                 FALSE, <<"Close">> \o app_name, original_command.processing_method)
      [] original_command.intent = "close_app" ->
             Cmd("open_app", original_command.entities, original_command.confidence,
                 FALSE, <<"Open">> \o app_name, original_command.processing_method)
      [] original_command.intent = "play_music" ->
             Cmd("pause_resume_music", NoEntities, original_command.confidence,
                 FALSE, <<"Pause", "music">>, original_command.processing_method)

\* undo_last_command: under history_lock, the scan of the history and either a
\* result of its own or the call of dispatch_command, from which it returns
\* (and releases the lock) when dispatch_command has returned
undo_last_command ==
    /\ history_lock = "free"
    /\ LET i == LastSuccessful(command_history)
           UndoReturns(origin) ==
               /\ dResult' = Result(FALSE, None, origin)
               /\ dPc' = "undo_returned"
               /\ UNCHANGED <<command_history, commands_executed, commands_failed,
                              last_command_time, history_lock, dCmd, dTimedOut, curInv,
                              running, hOutcome, invoked, now, nlpVars>>
       IN
       IF command_history = <<>> THEN UndoReturns("undo_empty")
       ELSE IF i = 0 THEN UndoReturns("undo_no_success")
       ELSE IF command_history[i].command.intent \in {"open_app", "close_app", "play_music"}
            THEN LET undo_command == _create_undo_command(command_history[i].command) IN
                 /\ dispatch_command(undo_command)
                 /\ history_lock' = IF PreCheck(undo_command) = Execute THEN "undo"
                                    ELSE "free"
            ELSE UndoReturns("cannot_undo")

(***************************************************************************)
(* SpecDispatch: a caller that passes commands of a bounded set to         *)
(* dispatch_command, one call after the other.                             *)
(***************************************************************************)

DispatchCommands ==
    {Cmd("open_app", [app_name |-> Str(<<"chrome">>)], 70, FALSE, <<"open", "chrome">>, "fallback"),
     Cmd("open_app", [app_name |-> Str(<<"chrome">>)], 90, TRUE, <<"open", "chrome">>, "openai"),
     Cmd("open_app", [app_name |-> Str(<<"cmd">>)], 90, TRUE, <<"open", "cmd">>, "openai"),
     Cmd("open_app", [app_name |-> Num(7)], 90, TRUE, <<"open", "7">>, "openai"),
     Cmd("shutdown_system", NoEntities, 70, TRUE, <<"shutdown", "the", "computer">>, "fallback"),
     Cmd("shutdown_system", NoEntities, 90, FALSE, <<"shutdown", "the", "computer">>, "openai"),
     Cmd("fly_to_moon", NoEntities, 90, TRUE, <<"fly", "me">>, "openai"),
     Cmd("fly_to_moon", NoEntities, 90, FALSE, <<"fly", "me">>, "openai"),
     Cmd("fly_to_moon", NoEntities, 20, TRUE, <<"fly", "me">>, "openai"),
     Cmd("get_time", NoEntities, 20, TRUE, <<"time">>, "openai"),
     Cmd("general_query", [query |-> Str(<<"hello">>)], 30, FALSE, <<"hello">>, "fallback"),
     Cmd("close_app", [app_name |-> Str(<<"cmd">>)], 90, FALSE, <<"close", "cmd">>, "openai")}

ValidatorIdle ==
    /\ vIn = Nil
    /\ vCmd = Nil
    /\ vOut = Nil

InitDispatch ==
    /\ ValidatorIdle
    /\ DispatcherInit
    /\ NlpInit(FALSE, FALSE)
    /\ LoopInit("true", "keyboard")
    /\ now = 0

\* the caller calls dispatch_command once the previous call has returned
CallDispatch ==
    /\ dPc \in {"idle", "returned", "undo_returned"}
    /\ nCalls < MaxCalls
    /\ nCalls' = nCalls + 1
    /\ \E command \in DispatchCommands : dispatch_command(command)
    /\ UNCHANGED <<validatorVars, loopVars, history_lock>>

\* the caller calls undo_last_command once the previous call has returned
CallUndo ==
    /\ dPc \in {"idle", "returned", "undo_returned"}
    /\ nCalls < MaxCalls
    /\ nCalls' = nCalls + 1
    /\ undo_last_command
    /\ UNCHANGED <<validatorVars, loopVars>>

NextDispatch ==
    \/ CallDispatch
    \/ CallUndo
    \/ HandlerFinish
    \/ FutureResult
    \/ FutureTimeout
    \/ ExecutorExit
    \/ RecordAndReturn
    \/ Tick

SpecDispatch == InitDispatch /\ [][NextDispatch]_vars

(* C1 as stated: whenever dispatch_command has returned for a command with *)
(* requires_confirmation = true, no handler was invoked for such a command *)
(* and the result is the confirmation-needed result.                       *)
C1_ConfirmationAlwaysReturned ==
    /\ \A i \in 1..Len(invoked) : ~invoked[i].requires_confirmation
    /\ (dPc = "returned" /\ dCmd.requires_confirmation)
       => dResult = ConfirmationResult

(* C1 amended: no handler is ever invoked for a command with               *)
(* requires_confirmation = true and dispatch_command returns a failed      *)
(* result for it; the result is the confirmation-needed result when the    *)
(* command passes validation and its intent has a registered handler.      *)
C1_ConfirmationGate ==
    /\ \A i \in 1..Len(invoked) : ~invoked[i].requires_confirmation
    /\ dPc \in {"waiting", "exiting", "recording"} => ~dCmd.requires_confirmation
    /\ (dPc = "returned" /\ dCmd.requires_confirmation)
       => /\ ~dResult.success
          /\ (validate_command(dCmd).kind = "ok" /\ dCmd.intent \in HandlerIntents)
             => dResult = ConfirmationResult

C1_Witness ==
    /\ dPc = "returned"
    /\ dCmd.requires_confirmation
    /\ dCmd.intent = "shutdown_system"
    /\ dResult = ConfirmationResult
    /\ Len(invoked) > 0

(* C3: when the deadline has elapsed with the handler still running, the   *)
(* dispatcher does not wait for the handler: it can leave                  *)
(* _execute_with_timeout and go on to return the timeout result.           *)
C3_TimeoutDoesNotWait ==
    (dPc = "exiting" /\ dTimedOut /\ curInv \in running) => ENABLED ExecutorExit

C15_NeverThrowsOutward ==
    [][/\ (dPc \in {"idle", "returned", "undo_returned"} /\ dPc' \in {"waiting", "returned"})
          => LET v == validate_command(dCmd') IN
             /\ v.kind = "raise"
                => /\ dPc' = "returned"
                   /\ dResult' = Result(FALSE, v.reason, "exception")
                   /\ invoked' = invoked
             /\ (v.kind = "ok" /\ dCmd'.intent \notin HandlerIntents)
                => /\ dPc' = "returned"
                   /\ dResult' = Result(FALSE, "Unknown command intent", "no_handler")
                   /\ invoked' = invoked
       /\ (dPc = "waiting" /\ dPc' = "exiting" /\ hOutcome # Nil /\ hOutcome.kind = "raise")
          => /\ ~dResult'.success
             /\ dResult'.origin = "execute_except"
       /\ dPc \in {"exiting", "recording"} => dResult' = dResult
       /\ dPc' = "returned" => /\ dResult' # Nil
                               /\ dResult'.success \in BOOLEAN]_vars

C15_Witness ==
    /\ dPc = "returned"
    /\ dResult.origin = "no_handler"
    /\ dCmd.intent = "fly_to_moon"
    /\ commands_failed = 1
    /\ \E i \in 1..Len(command_history) :
           command_history[i].result.origin = "execute_except"
    /\ Len(invoked) = 1

(* C16: command_history never holds more than max_history_size entries;   *)
(* recording into a full history removes the oldest entry and appends the  *)
(* new one, no other step changes the history, and once a call has         *)
(* returned the history is the most recent executed commands, in the order *)
(* of their execution.                                                     *)
C16_HistoryIsMostRecent ==
    [][/\ Len(command_history') <= MaxHistorySize
       /\ IF dPc = "recording" /\ dPc' = "returned"
          THEN LET entry == [command |-> dCmd, result |-> dResult] IN
               IF Len(command_history) < MaxHistorySize
               THEN command_history' = Append(command_history, entry)
               ELSE command_history' = Append(Tail(command_history), entry)
          ELSE command_history' = command_history
       /\ dPc' \in {"idle", "returned", "undo_returned"}
          => LET n == Len(command_history')
                 m == Len(invoked')
             IN /\ n = IF m < MaxHistorySize THEN m ELSE MaxHistorySize
                /\ \A i \in 1..n : command_history'[i].command = invoked'[m - n + i]]_vars

C16_Witness ==
    /\ dPc = "returned"
    /\ Len(command_history) = MaxHistorySize
    /\ Len(invoked) > MaxHistorySize
    /\ commands_executed = Len(invoked)
    /\ \A i, j \in 1..Len(invoked) : i # j => invoked[i] # invoked[j]

(* C17 as stated: once dispatch_command has returned a validation failure, *)
(* command_history holds an entry for the command with the failed result.  *)
C17_ValidationFailureRecorded ==
    (dPc = "returned" /\ dResult.origin = "validation")
    => \E i \in 1..Len(command_history) :
           command_history[i] = [command |-> dCmd, result |-> dResult]

(* C17 amended: a dispatch_command call whose command the validator        *)
(* rejects returns at once a failed result carrying the validator's        *)
(* reason; no handler is invoked, command_history and the statistics stay  *)
(* as they were, and no entry of the history is a validation failure.      *)
C17_ValidationFailureNotRecorded ==
    [][/\ (dPc \in {"idle", "returned", "undo_returned"} /\ dPc' \in {"waiting", "returned"})
          => LET v == validate_command(dCmd') IN
             v.kind = "reject"
             => /\ dPc' = "returned"
                /\ dResult' = Result(FALSE, v.reason, "validation")
                /\ invoked' = invoked
                /\ running' = running
                /\ command_history' = command_history
                /\ commands_executed' = commands_executed
                /\ commands_failed' = commands_failed
       /\ \A i \in 1..Len(command_history') :
              command_history'[i].result.origin # "validation"]_vars

C17_Witness ==
    /\ dPc = "returned"
    /\ dResult.origin = "validation"
    /\ validate_command(dCmd).kind = "reject"
    /\ dResult.error = validate_command(dCmd).reason
    /\ Len(command_history) = 1
    /\ Len(invoked) = 1

(* C26: dispatch_command returns the result of the earliest check that     *)
(* fails, in the order validation, handler lookup, confirmation            *)
(* requirement, and submits the handler exactly when all three pass.       *)
C26_ChecksInOrder ==
    [][(nCalls' # nCalls /\ dPc' \in {"waiting", "returned"})
       => LET c == dCmd'
              v == validate_command(c)
          IN
          /\ v.kind = "reject"
             => dResult' = Result(FALSE, v.reason, "validation")
          /\ (v.kind = "ok" /\ c.intent \notin HandlerIntents)
             => dResult' = Result(FALSE, "Unknown command intent", "no_handler")
          /\ (v.kind = "ok" /\ c.intent \in HandlerIntents /\ c.requires_confirmation)
             => dResult' = ConfirmationResult
          /\ (v.kind = "ok" /\ c.intent \in HandlerIntents /\ ~c.requires_confirmation)
             <=> (dPc' = "waiting" /\ invoked' = Append(invoked, c))
          /\ dPc' = "returned" => invoked' = invoked]_vars

C26_Witness ==
    /\ dPc = "returned"
    /\ dCmd.intent = "fly_to_moon"
    /\ dCmd.confidence < MinConfidence
    /\ dCmd.requires_confirmation
    /\ dResult = Result(FALSE, "Command confidence too low", "validation")
    /\ Len(invoked) = 2

(* C27: undo_last_command decides on the most recent successful entry of  *)
(* the history, whatever failed entries follow it and whatever entries     *)
(* precede it: it returns "No commands to undo" exactly for an empty       *)
(* history, "No successful commands to undo" exactly for a history without *)
(* a successful entry, "Cannot undo command" exactly when the most recent  *)
(* successful entry is not one of open_app, close_app, play_music, all     *)
(* three failed and without invoking a handler; and it dispatches a        *)
(* command of its own only for an undoable most recent successful entry.   *)
C27_UndoScansBackward ==
    [][LET h == command_history
           recent(i) == /\ i \in 1..Len(h)
                        /\ h[i].result.success
                        /\ \A j \in (i + 1)..Len(h) : ~h[j].result.success
           undoable(i) == h[i].command.intent \in {"open_app", "close_app", "play_music"}
       IN
       /\ dPc' = "undo_returned" /\ nCalls' # nCalls
          => /\ ~dResult'.success
             /\ invoked' = invoked
             /\ running' = running
             /\ command_history' = h
             /\ dResult'.origin = "undo_empty" <=> h = <<>>
             /\ dResult'.origin = "undo_no_success"
                <=> (h # <<>> /\ \A i \in 1..Len(h) : ~h[i].result.success)
             /\ dResult'.origin = "cannot_undo"
                <=> \E i \in 1..Len(h) : recent(i) /\ ~undoable(i)
       /\ (nCalls' # nCalls /\ dPc' # "undo_returned" /\ dCmd' \notin DispatchCommands)
          => \E i \in 1..Len(h) :
                 /\ recent(i)
                 /\ undoable(i)
                 /\ dCmd'.entities = IF h[i].command.intent = "play_music"
                                      THEN NoEntities ELSE h[i].command.entities]_vars

C27_Witness ==
    /\ dPc = "undo_returned"
    /\ dResult.origin = "cannot_undo"
    /\ Len(command_history) = 2
    /\ command_history[1].command.intent = "open_app"
    /\ command_history[1].result.success
    /\ command_history[2].command.intent = "general_query"
    /\ command_history[2].result.success
    /\ Len(invoked) = 2

(* C28: when the most recent successful entry of the history is a         *)
(* close_app of an application on the denylist of open_app, a call of      *)
(* undo_last_command returns the validation failure of the open_app        *)
(* command it built ("Cannot open ... for security reasons"), and no       *)
(* handler is invoked by it.                                               *)
C28_UndoIsRevalidated ==
    [][LET h == command_history
           denied(i) ==
               /\ i \in 1..Len(h)
               /\ h[i].result.success
               /\ \A j \in (i + 1)..Len(h) : ~h[j].result.success
               /\ h[i].command.intent = "close_app"
               /\ "app_name" \in DOMAIN h[i].command.entities
               /\ h[i].command.entities.app_name.type = "str"
               /\ Lower(Strip(h[i].command.entities.app_name.s)) \in dangerous_apps
       IN
       (/\ nCalls' # nCalls
        /\ dPc' = "undo_returned" \/ dCmd' \notin DispatchCommands
        /\ \E i \in 1..Len(h) : denied(i))
       => /\ dPc' = "returned"
          /\ dCmd'.intent = "open_app"
          /\ dResult' = Result(FALSE, "Cannot open app for security reasons", "validation")
          /\ invoked' = invoked
          /\ running' = running
          /\ history_lock' = "free"]_vars

C28_Witness ==
    /\ dPc = "returned"
    /\ dCmd = Cmd("open_app", [app_name |-> Str(<<"cmd">>)], 90, FALSE,
                  <<"Open", "cmd">>, "openai")
    /\ dResult = Result(FALSE, "Cannot open app for security reasons", "validation")
    /\ Len(invoked) = 1
    /\ invoked[1].intent = "close_app"
    /\ history_lock = "free"

(* C38: commands_failed increases, by one, only in a call of               *)
(* dispatch_command that returns because an exception reached its except   *)
(* clause (the validator raised); a call that returns a validation         *)
(* failure, the missing-handler or the confirmation-needed result, a       *)
(* handler's failure or the timeout result leaves it unchanged;            *)
(* commands_executed increases, by one, exactly in the return of a call    *)
(* that invoked a handler, whatever the result, so that between calls it   *)
(* equals the number of handlers invoked.                                  *)
C38_FailureCounterOnlyOnException ==
    [][/\ commands_failed' # commands_failed
          => /\ commands_failed' = commands_failed + 1
             /\ nCalls' # nCalls
             /\ dPc' = "returned"
             /\ validate_command(dCmd').kind = "raise"
             /\ ~dResult'.success
       /\ (/\ dPc' = "returned"
           /\ nCalls' # nCalls \/ dPc = "recording"
           /\ validate_command(dCmd').kind # "raise")
          => commands_failed' = commands_failed
       /\ (dPc' = "returned" /\ (nCalls' # nCalls \/ dPc = "recording"))
          => commands_executed' =
                 IF dPc = "recording" /\ invoked # <<>> /\ invoked[Len(invoked)] = dCmd
                 THEN commands_executed + 1 ELSE commands_executed
       /\ commands_executed' # commands_executed => (dPc = "recording" /\ dPc' = "returned")
       /\ (dPc' \in {"returned", "undo_returned"} /\ history_lock' = "free")
          => commands_executed' = Len(invoked')]_vars

C38_Witness ==
    /\ dPc = "returned"
    /\ dResult = TimeoutResult
    /\ nCalls = 3
    /\ commands_failed = 1
    /\ commands_executed = 1
    /\ Len(invoked) = 1

(* C34: whatever dispatch_command and undo_last_command calls are made,    *)
(* no handler is ever invoked for a shutdown_system or restart_system      *)
(* command and none is recorded in the history: with requires_confirmation *)
(* false the command fails validation, with requires_confirmation true it  *)
(* gets the confirmation-needed result.                                    *)
C34_SystemHandlersNeverInvoked ==
    LET system == {"shutdown_system", "restart_system"} IN
    /\ \A i \in 1..Len(invoked) : invoked[i].intent \notin system
    /\ \A i \in 1..Len(command_history) : command_history[i].command.intent \notin system
    /\ dPc \in {"waiting", "exiting", "recording"} => dCmd.intent \notin system
    /\ (dPc = "returned" /\ dCmd.intent \in system /\ dCmd.confidence >= MinConfidence)
       => dResult = IF dCmd.requires_confirmation
                    THEN ConfirmationResult
                    ELSE Result(FALSE, "System commands require confirmation", "validation")

C34_Witness ==
    /\ dPc = "returned"
    /\ dCmd.intent = "shutdown_system"
    /\ ~dCmd.requires_confirmation
    /\ dResult = Result(FALSE, "System commands require confirmation", "validation")
    /\ nCalls = MaxCalls
    /\ Len(invoked) = 2
    /\ Len(command_history) = 2

(* C33: no state is reachable in which the thread that called             *)
(* undo_last_command has arrived at _record_command's "with history_lock"  *)
(* while undo_last_command, further up on its own stack, holds that lock   *)
(* (a threading.Lock, which its holder cannot acquire again and which only *)
(* the return of undo_last_command releases).                              *)
C33_UndoNeverWaitsOnOwnLock ==
    ~(dPc = "recording" /\ history_lock = "undo")

(***************************************************************************)
(* SpecApps: a caller that passes open_app and close_app commands to       *)
(* dispatch_command and calls undo_last_command; the application names     *)
(* are an allowed one, a denylisted one as listed and in capitals within   *)
(* blanks, a blank one and a missing one; the allowed application is       *)
(* closed by undoing its opening.                                          *)
(***************************************************************************)

AppCommands ==
    {Cmd("open_app", e, 90, FALSE, <<>>, "openai") :
        e \in {NoEntities,
               [app_name |-> Str(<<"chrome">>)],
               [app_name |-> Str(<<"cmd">>)],
               [app_name |-> Str(<<" ", "CMD", " ">>)],
               [app_name |-> Str(<<" ">>)]}}
    \cup
    {Cmd("close_app", e, 90, FALSE, <<>>, "openai") :
        e \in {NoEntities,
               [app_name |-> Str(<<" ", "CMD", " ">>)],
               [app_name |-> Str(<<" ">>)]}}

CallDispatchApp ==
    /\ dPc \in {"idle", "returned", "undo_returned"}
    /\ nCalls < MaxCalls
    /\ nCalls' = nCalls + 1
    /\ \E command \in AppCommands : dispatch_command(command)
    /\ UNCHANGED <<validatorVars, loopVars, history_lock>>

NextApps ==
    \/ CallDispatchApp
    \/ CallUndo
    \/ HandlerFinish
    \/ FutureResult
    \/ FutureTimeout
    \/ ExecutorExit
    \/ RecordAndReturn
    \/ Tick

SpecApps == InitDispatch /\ [][NextApps]_vars

(* C30: a handler is never invoked for an open_app command whose app_name  *)
(* is missing, blank or, apart from case and surrounding blanks, a name of *)
(* the denylist; dispatch_command returns the validation failure for such  *)
(* a command, and for a close_app command it returns a validation failure  *)
(* exactly when the app_name is missing or blank.                          *)
C30_DeniedAppsNeverOpened ==
    LET blank == {NoEntities, [app_name |-> Str(<<" ">>)]}
        denied == {[app_name |-> Str(<<"cmd">>)], [app_name |-> Str(<<" ", "CMD", " ">>)]}
    IN
    /\ \A i \in 1..Len(invoked) :
           /\ invoked[i].entities \notin blank
           /\ invoked[i].intent = "open_app" => invoked[i].entities \notin denied
    /\ dPc \in {"waiting", "exiting", "recording"}
       => /\ dCmd.entities \notin blank
          /\ dCmd.intent = "open_app" => dCmd.entities \notin denied
    /\ (dPc = "returned" /\ dCmd.intent = "open_app")
       => /\ dCmd.entities \in blank
             <=> dResult = Result(FALSE, "Application name required", "validation")
          /\ dCmd.entities \in denied
             <=> dResult = Result(FALSE, "Cannot open app for security reasons", "validation")
    /\ (dPc = "returned" /\ dCmd.intent = "close_app")
       => (dCmd.entities \in blank
           <=> dResult = Result(FALSE, "Application name required", "validation"))
    /\ (dPc = "returned" /\ dCmd.intent = "close_app")
       => (dCmd.entities \notin blank <=> dResult.origin # "validation")

C30_Witness ==
    /\ dPc = "returned"
    /\ dCmd = Cmd("open_app", [app_name |-> Str(<<" ", "CMD", " ">>)], 90, FALSE, <<>>, "openai")
    /\ dResult = Result(FALSE, "Cannot open app for security reasons", "validation")
    /\ Len(invoked) = 1
    /\ invoked[1] = Cmd("close_app", [app_name |-> Str(<<" ", "CMD", " ">>)], 90, FALSE,
                        <<>>, "openai")
    /\ Len(command_history) = 1
    /\ command_history[1].result.success

(***************************************************************************)
(* SpecOperations: SpecDispatch with clear_history and shutdown, which may *)
(* be called from another thread while a dispatch is under way.            *)
(***************************************************************************)

\* clear_history that resets the statistics as well
clear_history_ResetsStatistics ==
    /\ history_lock = "free"
    /\ nCalls < MaxCalls
    /\ nCalls' = nCalls + 1
    /\ command_history' = <<>>
    /\ commands_executed' = 0
    /\ commands_failed' = 0
    /\ last_command_time' = <<>>
    /\ UNCHANGED <<validatorVars, nlpVars, loopVars, history_lock, dPc, dCmd, dResult,
                   dTimedOut, curInv, running, hOutcome, invoked, now>>

\* clear_history: command_history.clear() under history_lock
clear_history ==
    /\ history_lock = "free"
    /\ nCalls < MaxCalls
    /\ nCalls' = nCalls + 1
    /\ command_history' = <<>>
    /\ UNCHANGED <<validatorVars, nlpVars, loopVars, commands_executed, commands_failed,
                   last_command_time, history_lock, dPc, dCmd, dResult,
                   dTimedOut, curInv, running, hOutcome, invoked, now>>

\* CommandDispatcher.shutdown: the handlers' own shutdown, whose exceptions
\* are logged and which leaves the dispatcher's fields alone, then the call of
\* clear_history; the counters and last_command_time are not reset
shutdown ==
    /\ history_lock = "free"
    /\ nCalls < MaxCalls
    /\ nCalls' = nCalls + 1
    /\ command_history' = <<>>
    /\ UNCHANGED <<validatorVars, nlpVars, loopVars, commands_executed, commands_failed,
                   last_command_time, history_lock, dPc, dCmd, dResult,
                   dTimedOut, curInv, running, hOutcome, invoked, now>>

NextOperations ==
    \/ NextDispatch
    \/ clear_history
    \/ shutdown

SpecOperations == InitDispatch /\ [][NextOperations]_vars

(* C21: no step of dispatch_command, undo_last_command, clear_history or   *)
(* shutdown lowers commands_executed or commands_failed, and once          *)
(* last_command_time is set it stays set and never becomes earlier.        *)
C21_StatisticsMonotonic ==
    [][/\ commands_executed' >= commands_executed
       /\ commands_failed' >= commands_failed
       /\ last_command_time # <<>>
          => /\ last_command_time' # <<>>
             /\ last_command_time'[1] >= last_command_time[1]]_vars

C21_Witness ==
    /\ command_history = <<>>
    /\ commands_executed >= 1
    /\ commands_failed >= 1
    /\ last_command_time = <<0>>
    /\ now > 0
    /\ dPc = "returned"

(***************************************************************************)
(* FallbackProcessor: the ordered regular expressions of intent_patterns,  *)
(* matched token by token against the stripped, lower-cased text.          *)
(***************************************************************************)

\* a group of a match: the text it captured, or None when it took no part
Grp(s) == [some |-> TRUE, s |-> s]
NoGrp == [some |-> FALSE, s |-> <<>>]

\* re.match: None, or a match with its groups
NoMatch == [matched |-> FALSE, groups |-> <<>>]
Match(groups) == [matched |-> TRUE, groups |-> groups]

Drop(t, n) == SubSeq(t, n + 1, Len(t))
Last(t) == t[Len(t)]
IsPrefix(p, t) == Len(p) <= Len(t) /\ SubSeq(t, 1, Len(p)) = p

\* (?:w\s+)? in front of a part that must follow
Opt(t, w) == IF Len(t) > 1 /\ t[1] = w THEN Tail(t) ELSE t

\* the first alternative of (?:a|b|...) after which the rest of the pattern,
\* which needs at least `need` more tokens, can match; 0 when there is none
FirstAlt(alts, t, need) ==
    LET ok == {i \in 1..Len(alts) : IsPrefix(alts[i], t) /\ Len(t) - Len(alts[i]) >= need} IN
    IF ok = {} THEN 0 ELSE CHOOSE i \in ok : \A j \in ok : i <= j

IsSuffix(x, t) == Len(x) <= Len(t) /\ SubSeq(t, Len(t) - Len(x) + 1, Len(t)) = x

\* (?:a|b)\s+(.+?)(?:\s+(?:s1|s2))?$ : the lazy group leaves the optional
\* ending to the pattern whenever text remains in front of it
Capture(alts, sufs, t) ==
    LET i == FirstAlt(alts, t, 1) IN
    IF i = 0 THEN NoMatch
    ELSE LET rest == Drop(t, Len(alts[i]))
             ends == {x \in sufs : IsSuffix(x, rest) /\ Len(rest) > Len(x)} IN
         IF ends # {}
         THEN LET x == CHOOSE x \in ends : \A y \in ends : Len(y) <= Len(x) IN
              Match(<<Grp(SubSeq(rest, 1, Len(rest) - Len(x)))>>)
         ELSE Match(<<Grp(rest)>>)

\* (?:a|b)\s+(.+?)\s+x\s+y$
CaptureBefore(alts, tail, t) ==
    LET i == FirstAlt(alts, t, 1 + Len(tail)) IN
    IF i = 0 THEN NoMatch
    ELSE LET rest == Drop(t, Len(alts[i])) IN
         IF SubSeq(rest, Len(rest) - Len(tail) + 1, Len(rest)) = tail
         THEN Match(<<Grp(SubSeq(rest, 1, Len(rest) - Len(tail)))>>)
         ELSE NoMatch

\* (?:\s+(?:k1|k2)\s+(.+))?$ after the words already matched
OptTopic(rest, keys) ==
    IF rest = <<>> THEN Match(<<NoGrp>>)
    ELSE IF Len(rest) >= 2 /\ rest[1] \in keys THEN Match(<<Grp(Tail(rest))>>)
    ELSE NoMatch

\* (?:a|b)(?:\s+(?:k1|k2)\s+(.+))?$
Topic(alts, keys, t) ==
    LET ok == {i \in 1..Len(alts) :
                   IsPrefix(alts[i], t) /\ OptTopic(Drop(t, Len(alts[i])), keys).matched} IN
    IF ok = {} THEN NoMatch
    ELSE LET i == CHOOSE i \in ok : \A j \in ok : i <= j IN
         OptTopic(Drop(t, Len(alts[i])), keys)

\* (?:a|b)$
Exactly(alts, t) ==
    IF \E i \in 1..Len(alts) : alts[i] = t THEN Match(<<>>) ELSE NoMatch

\* \d+
IsDigits(w) == w \in {"5", "10", "25", "1441"}

\* int(str)
IntOf(w) ==
    CASE w = "5" -> 5
      [] w = "10" -> 10
      [] w = "25" -> 25
      [] w = "1441" -> 1441

TimeUnits == {"minute", "minutes", "hour", "hours"}

\* (.+?)(?:\s+in\s+(\d+)\s+(minute|minutes|hour|hours))?$
ReminderGroups(rest) ==
    IF /\ Len(rest) >= 4
       /\ rest[Len(rest) - 2] = "in"
       /\ IsDigits(rest[Len(rest) - 1])
       /\ Last(rest) \in TimeUnits
    THEN Match(<<Grp(SubSeq(rest, 1, Len(rest) - 3)), Grp(<<rest[Len(rest) - 1]>>),
                 Grp(<<Last(rest)>>)>>)
    ELSE Match(<<Grp(rest), NoGrp, NoGrp>>)

\* (?:remind|reminder)\s+(?:me\s+)?(?:to\s+)?(.+?)(?:\s+in\s+(\d+)\s+(unit))?$
Reminder1(t) ==
    IF Len(t) >= 2 /\ t[1] \in {"remind", "reminder"}
    THEN ReminderGroups(Opt(Opt(Tail(t), "me"), "to"))
    ELSE NoMatch

\* (?:set\s+)?reminder\s+(?:to\s+)?(.+?)$
Reminder2(t) ==
    LET u == Opt(t, "set") IN
    IF Len(u) >= 2 /\ u[1] = "reminder" THEN Match(<<Grp(Opt(Tail(u), "to"))>>)
    ELSE NoMatch

\* (\d+)\s+(minute|minutes|hour|hours)$ after the words already matched
Duration(rest) ==
    IF Len(rest) = 2 /\ IsDigits(rest[1]) /\ rest[2] \in TimeUnits
    THEN Match(<<Grp(<<rest[1]>>), Grp(<<rest[2]>>)>>)
    ELSE NoMatch

\* (?:set\s+)?(?:a\s+)?timer\s+for\s+(\d+)\s+(minute|minutes|hour|hours)$
Timer1(t) ==
    LET u == Opt(Opt(t, "set"), "a") IN
    IF IsPrefix(<<"timer", "for">>, u) THEN Duration(Drop(u, 2)) ELSE NoMatch

\* timer\s+(\d+)\s+(minute|minutes|hour|hours)$
Timer2(t) == IF IsPrefix(<<"timer">>, t) THEN Duration(Tail(t)) ELSE NoMatch

\* the first "saying" of rest that has text on both sides; 0 when there is none
SayingAt(rest) ==
    LET at == {i \in 2..(Len(rest) - 1) : rest[i] = "saying"} IN
    IF at = {} THEN 0 ELSE CHOOSE i \in at : \A j \in at : i <= j

\* (.+?)(?:\s+saying\s+(.+?))?$
EmailGroups(rest) ==
    LET i == SayingAt(rest) IN
    IF i = 0 THEN Match(<<Grp(rest), NoGrp>>)
    ELSE Match(<<Grp(SubSeq(rest, 1, i - 1)), Grp(Drop(rest, i))>>)

\* (?:send|write)\s+(?:an\s+)?email\s+(?:to\s+)?(.+?)(?:\s+saying\s+(.+?))?$
Email1(t) ==
    IF Len(t) >= 2 /\ t[1] \in {"send", "write"}
    THEN LET u == Opt(Tail(t), "an") IN
         IF Len(u) >= 2 /\ u[1] = "email" THEN EmailGroups(Opt(Tail(u), "to"))
         ELSE NoMatch
    ELSE NoMatch

\* email\s+(.+?)(?:\s+saying\s+(.+?))?$
Email2(t) ==
    IF Len(t) >= 2 /\ t[1] = "email" THEN EmailGroups(Tail(t)) ELSE NoMatch

\* (?:what'?s?|tell me|show me)\s+(?:the\s+)?weather(?:\s+(?:in|for|at)\s+(.+))?$
Weather1(t) ==
    LET i == FirstAlt(<<<<"what">>, <<"whats">>, <<"what's">>, <<"tell", "me">>,
                        <<"show", "me">>>>, t, 1) IN
    IF i = 0 THEN NoMatch
    ELSE LET u == Opt(Drop(t, IF i <= 3 THEN 1 ELSE 2), "the") IN
         IF u[1] = "weather" THEN OptTopic(Tail(u), {"in", "for", "at"}) ELSE NoMatch

\* (?:shutdown|turn off|power off)\s+(?:the\s+)?(?:computer|pc|system)$
\* (?:restart|reboot|reboot)\s+(?:the\s+)?(?:computer|pc|system)$
System1(alts, t) ==
    LET i == FirstAlt(alts, t, 1) IN
    IF i = 0 THEN NoMatch
    ELSE LET u == Opt(Drop(t, Len(alts[i])), "the") IN
         IF Len(u) = 1 /\ u[1] \in {"computer", "pc", "system"} THEN Match(<<>>)
         ELSE NoMatch

\* (?:what'?s?\s+(?:the\s+)?latest\s+)?news(?:\s+(?:about|on)\s+(.+?))?$
News1(t) ==
    LET u == IF Len(t) >= 3 /\ t[1] \in {"what", "whats", "what's"}
             THEN LET w == Opt(Tail(t), "the") IN
                  IF Len(w) >= 2 /\ w[1] = "latest" THEN Tail(w) ELSE t
             ELSE t IN
    Topic(<<<<"news">>>>, {"about", "on"}, u)

\* (?:tell|show)\s+(?:me\s+)?(?:the\s+)?news(?:\s+(?:about|on)\s+(.+?))?$
News2(t) ==
    IF Len(t) >= 2 /\ t[1] \in {"tell", "show"}
    THEN Topic(<<<<"news">>>>, {"about", "on"}, Opt(Opt(Tail(t), "me"), "the"))
    ELSE NoMatch

Pat(intent, m) == [intent |-> intent, m |-> m]

\* intent_patterns, intent by intent and pattern by pattern in the dict's order,
\* each with the outcome of re.match(pattern, text)
intent_patterns(t) ==
    << Pat("open_app", Capture(<<<<"open">>, <<"launch">>, <<"start">>, <<"run">>>>,
                               {<<"app">>, <<"application">>, <<"program">>}, t)),
       Pat("open_app", Capture(<<<<"start">>, <<"run">>>>, {}, t)),
       Pat("open_app", CaptureBefore(<<<<"open">>>>, <<"app">>, t)),
       Pat("close_app", Capture(<<<<"close">>, <<"quit">>, <<"exit">>, <<"stop">>>>,
                                {<<"app">>, <<"application">>, <<"program">>}, t)),
       Pat("close_app", Capture(<<<<"close">>, <<"quit">>>>, {}, t)),
       Pat("close_app", CaptureBefore(<<<<"shutdown">>>>, <<"app">>, t)),
       Pat("get_weather", Weather1(t)),
       Pat("get_weather", Topic(<<<<"weather">>>>, {"in", "for", "at"}, t)),
       Pat("get_weather", Topic(<<<<"how", "weather">>, <<"hows", "weather">>,
                                  <<"how's", "weather">>, <<"what", "the", "weather">>,
                                  <<"whats", "the", "weather">>,
                                  <<"what's", "the", "weather">>>>,
                                {"in", "for", "at"}, t)),
       Pat("search_web", Capture(<<<<"search">>, <<"google">>, <<"look", "up">>>>,
                                 {<<"on", "google">>}, t)),
       Pat("search_web", Capture(<<<<"find">>, <<"find", "out">>, <<"tell", "me", "about">>>>,
                                 {}, t)),
       Pat("search_web", Capture(<<<<"what", "is">>, <<"who", "is">>, <<"where", "is">>>>,
                                 {}, t)),
       Pat("search_youtube", CaptureBefore(<<<<"search">>, <<"play">>, <<"find">>>>,
                                           <<"on", "youtube">>, t)),
       Pat("search_youtube", Capture(<<<<"youtube">>>>, {}, t)),
       Pat("search_youtube", CaptureBefore(<<<<"play">>, <<"watch">>>>,
                                           <<"on", "youtube">>, t)),
       Pat("search_wikipedia", CaptureBefore(<<<<"search">>, <<"look", "up">>>>,
                                             <<"on", "wikipedia">>, t)),
       Pat("search_wikipedia", Capture(<<<<"wikipedia">>>>, {}, t)),
       Pat("search_wikipedia", Capture(<<<<"tell", "me", "about">>>>, {}, t)),
       Pat("set_reminder", Reminder1(t)),
       Pat("set_reminder", Reminder2(t)),
       Pat("set_reminder", Capture(<<<<"remind", "me">>>>, {}, t)),
       Pat("set_timer", Timer1(t)),
       Pat("set_timer", Timer2(t)),
       Pat("set_timer", Capture(<<<<"count">>, <<"countdown">>>>, {}, t)),
       Pat("play_music", Capture(<<<<"play">>, <<"start">>>>, {<<"music">>, <<"song">>, <<"track">>}, t)),
       Pat("play_music", Capture(<<<<"listen", "to">>, <<"hear">>>>, {}, t)),
       Pat("play_music", Capture(<<<<"music">>>>, {}, t)),
       Pat("send_email", Email1(t)),
       Pat("send_email", Email2(t)),
       Pat("send_email", Capture(<<<<"message">>, <<"contact">>>>, {}, t)),
       Pat("get_time", Exactly(<<<<"what", "time", "is", "it">>, <<"time", "is", "it">>>>, t)),
       Pat("get_time", Exactly(<<<<"current", "time">>, <<"time">>>>, t)),
       Pat("get_time", Exactly(<<<<"tell", "me", "the", "time">>, <<"what", "time">>>>, t)),
       Pat("get_date", Exactly(<<<<"what", "day", "is", "it">>, <<"what", "date", "is", "it">>,
                                 <<"day", "is", "it">>, <<"date", "is", "it">>>>, t)),
       Pat("get_date", Exactly(<<<<"current", "day">>, <<"current", "date">>, <<"day">>,
                                 <<"date">>>>, t)),
       Pat("get_date", Exactly(<<<<"tell", "me", "the", "date">>, <<"what", "date">>>>, t)),
       Pat("shutdown_system", System1(<<<<"shutdown">>, <<"turn", "off">>, <<"power", "off">>>>, t)),
       Pat("shutdown_system", Exactly(<<<<"shut", "down">>, <<"power", "down">>>>, t)),
       Pat("restart_system", System1(<<<<"restart">>, <<"reboot">>>>, t)),
       Pat("restart_system", Exactly(<<<<"restart", "computer">>, <<"reboot", "system">>>>, t)),
       Pat("get_news", News1(t)),
       Pat("get_news", News2(t)),
       Pat("get_news", Topic(<<<<"news">>, <<"headlines">>>>, {"about", "on"}, t)) >>

\* sensitive_patterns: re.search of each pattern in the text
is_sensitive(t) ==
    \/ \E i \in 1..Len(t) : t[i] \in {"password", "secret", "token", "key", "credential"}
    \/ \E i \in 1..(Len(t) - 1) : t[i] \in {"delete", "remove", "uninstall"}
    \/ \E i \in 1..(Len(t) - 1) : t[i] \in {"format", "erase", "wipe"}
    \/ \E i \in 1..Len(t) : t[i] \in {"administrator", "root", "sudo"}

\* the index in ps of the last pattern that matches; 0 when none
FirstMatch_Last(ps) ==
    LET ok == {i \in 1..Len(ps) : ps[i].m.matched} IN
    IF ok = {} THEN 0 ELSE CHOOSE i \in ok : \A j \in ok : j <= i

\* the index in ps of the first pattern that matches; 0 when none
FirstMatch(ps) ==
    LET ok == {i \in 1..Len(ps) : ps[i].m.matched} IN
    IF ok = {} THEN 0 ELSE CHOOSE i \in ok : \A j \in ok : i <= j

\* what a call ends with: a CommandResult, or an exception
Returned(cmd) == [kind |-> "command", cmd |-> cmd, error |-> None]
Raised(error) == [kind |-> "raise", cmd |-> Nil, error |-> error]

\* entities of a set_timer match: int(groups[0]), then groups[1]
TimerEntities(groups) ==
    IF ~(Len(groups[1].s) = 1 /\ IsDigits(groups[1].s[1]))
    THEN [kind |-> "raise", error |-> "ValueError"]
    ELSE IF Len(groups) < 2 THEN [kind |-> "raise", error |-> "IndexError"]
    ELSE [kind |-> "ok",
          entities |-> [time_value |-> Num(IntOf(groups[1].s[1])),
                        time_unit |-> Str(groups[2].s)]]

\* the entities built from match.groups() for the intent
Entities(intent, groups) ==
    IF groups = <<>> THEN [kind |-> "ok", entities |-> NoEntities]
    ELSE IF intent \in {"open_app", "close_app"}
         THEN [kind |-> "ok", entities |-> [app_name |-> Str(Strip(groups[1].s))]]
    ELSE IF intent \in {"get_weather", "search_web", "search_youtube", "search_wikipedia"}
         THEN [kind |-> "ok",
               entities |-> [query |-> IF groups[1].some /\ groups[1].s # <<>>
                                       THEN Str(Strip(groups[1].s)) ELSE NoneV]]
    ELSE IF intent = "set_reminder"
         THEN IF Len(groups) > 2 /\ groups[2].some /\ groups[2].s # <<>>
              THEN [kind |-> "ok",
                    entities |-> [message |-> Str(Strip(groups[1].s)),
                                  time_value |-> Num(IntOf(groups[2].s[1])),
                                  time_unit |-> Str(groups[3].s)]]
              ELSE [kind |-> "ok", entities |-> [message |-> Str(Strip(groups[1].s))]]
    ELSE IF intent = "set_timer" THEN TimerEntities(groups)
    ELSE IF intent = "play_music"
         THEN [kind |-> "ok", entities |-> [song_or_playlist |-> Str(Strip(groups[1].s))]]
    ELSE IF intent = "send_email"
         THEN IF Len(groups) > 1 /\ groups[2].some /\ groups[2].s # <<>>
              THEN [kind |-> "ok",
                    entities |-> [recipient |-> Str(Strip(groups[1].s)),
                                  message |-> Str(Strip(groups[2].s))]]
              ELSE [kind |-> "ok", entities |-> [recipient |-> Str(Strip(groups[1].s))]]
    ELSE [kind |-> "ok", entities |-> NoEntities]

FallbackConfidence == 70

NoMatchConfidence == 30

\* a fallback whose general_query falls short of the confidence it has
FallbackResult_Weak(text, ps, i) ==
    Returned(Cmd("general_query", [query |-> Str(text)], NoMatchConfidence - 1, FALSE,
                 text, "fallback"))

\* the body of the loop over intent_patterns at its first match i, and the
\* general_query that follows the loop when nothing matched (i = 0)
FallbackResult(text, ps, i) ==
    IF i = 0
    THEN Returned(Cmd("general_query", [query |-> Str(text)], NoMatchConfidence, FALSE,
                      text, "fallback"))
    ELSE LET e == Entities(ps[i].intent, ps[i].m.groups) IN
         IF e.kind = "raise" THEN Raised(e.error)
         ELSE Returned(Cmd(ps[i].intent, e.entities, FallbackConfidence,
                           is_sensitive(text)
                               \/ ps[i].intent \in {"shutdown_system", "restart_system",
                                                     "send_email"},
                           text, "fallback"))

\* the loop over intent_patterns, which returns at the first match
FallbackScan(text, ps) == FallbackResult(text, ps, FirstMatch(ps))

\* FallbackProcessor.process_command(text)
fallback_process_command(text0) ==
    LET text == Lower(Strip(text0)) IN
    FallbackScan(text, intent_patterns(text))

(***************************************************************************)
(* NLPProcessor.process_command                                            *)
(***************************************************************************)

\* number of process_command calls explored
MaxNlpCalls == 3

\* cache_ttl_hours of AIConfig
CacheTtlHours == 1

\* what chat.completions.create and the parsing of its content come to: an
\* exception, a content that is no JSON, or a JSON object with some fields
Reply(kind, fields, intent, entities, confidence, rc) ==
    [kind |-> kind, fields |-> fields, intent |-> intent, entities |-> entities,
     confidence |-> confidence, requires_confirmation |-> rc]

AllFields == {"intent", "entities", "confidence", "requires_confirmation"}

RemoteReplies ==
    {Reply("error", {}, "", NoEntities, 0, FALSE),
     Reply("not_json", {}, "", NoEntities, 0, FALSE),
     Reply("json", AllFields, "open_app", [app_name |-> Str(<<"chrome">>)], 95, FALSE),
     Reply("json", AllFields, "shutdown_system", NoEntities, 90, TRUE),
     Reply("json", AllFields, "open_app", [app_name |-> Str(<<"chrome">>)], 150, FALSE),
     Reply("json", {"intent", "entities"}, "open_app", [app_name |-> Str(<<"chrome">>)],
           0, FALSE),
     Reply("json", {}, "", NoEntities, 0, FALSE)}

DefaultConfidence == 50

\* a CommandResult built without the defaults of parsed.get
ParsedCommand_NoDefaults(reply, text) ==
    Cmd(reply.intent, reply.entities, reply.confidence, reply.requires_confirmation,
        text, "openai")

\* the CommandResult _process_with_openai builds from the parsed reply
ParsedCommand(reply, text) ==
    Cmd(IF "intent" \in reply.fields THEN reply.intent ELSE "unknown",
        IF "entities" \in reply.fields THEN reply.entities ELSE NoEntities,
        IF "confidence" \in reply.fields THEN reply.confidence ELSE DefaultConfidence,
        IF "requires_confirmation" \in reply.fields THEN reply.requires_confirmation
        ELSE FALSE,
        text, "openai")

\* _get_cached_response's test of an entry's age
Fresh(entry, t) == t - entry.created_at < entry.ttl_hours

\* the response a cache hit returns, tagged as coming from the cache
Cached_Tagged(entry) == [entry.response EXCEPT !.processing_method = "cache"]

\* the response a cache hit returns
Cached(entry) == entry.response

\* the cache after _get_cached_response kept an expired entry
Purged_Kept(c, key) == c

\* the cache after _get_cached_response deleted an expired entry
Purged(c, key) == [c EXCEPT ![key] = NoEntry]

\* _cache_response without effect
_cache_response_Lost(c, text, response, t) == c

\* _cache_response(text, response) at time t
_cache_response(c, text, response, t) ==
    [c EXCEPT ![_get_cache_key(text)] = Entry(response, t, CacheTtlHours)]

\* process_command(text) up to the remote call: the empty command, the choice
\* of the path and, on the OpenAI path, _get_cached_response; nFound is the
\* cache entry the lookup came upon
NlpCall(text) ==
    /\ nPc \in {"idle", "done"}
    /\ nlpCalls' = nlpCalls + 1
    /\ nText' = text
    /\ LET stripped == Strip(text)
           key == _get_cache_key(stripped) IN
       IF stripped = <<>>
       THEN /\ nOut' = Returned(Cmd("error", [error |-> Str(<<"Empty", "command">>)], 0,
                                    FALSE, text, "error"))
            /\ nVia' = "error"
            /\ nPc' = "done"
            /\ nFound' = NoEntry
            /\ UNCHANGED <<cache, cache_hits, requests_made>>
       ELSE IF ~use_openai
       THEN /\ nPc' = "fallback"
            /\ nVia' = "none"
            /\ nOut' = Nil
            /\ nFound' = NoEntry
            /\ UNCHANGED <<cache, cache_hits, requests_made>>
       ELSE IF ~cache_responses
       THEN /\ nPc' = "remote"
            /\ nVia' = "none"
            /\ nOut' = Nil
            /\ nFound' = NoEntry
            /\ UNCHANGED <<cache, cache_hits, requests_made>>
       ELSE /\ nFound' = cache[key]
            /\ IF cache[key].present /\ Fresh(cache[key], now)
               THEN /\ nOut' = Returned(Cached(cache[key]))
                    /\ nVia' = "cache"
                    /\ cache_hits' = cache_hits + 1
                    /\ requests_made' = requests_made + 1
                    /\ nPc' = "done"
                    /\ UNCHANGED cache
               ELSE /\ cache' = IF cache[key].present THEN Purged(cache, key) ELSE cache
                    /\ nPc' = "remote"
                    /\ nVia' = "none"
                    /\ nOut' = Nil
                    /\ UNCHANGED <<cache_hits, requests_made>>
    /\ UNCHANGED <<use_openai, cache_responses, remoteCalls, lastRemote, cache_file>>

\* _process_with_openai from the remote call on: the reply, the CommandResult
\* built from it, _cache_response; any exception makes it return None
NlpRemote(reply) ==
    /\ nPc = "remote"
    /\ remoteCalls' = remoteCalls + 1
    /\ IF reply.kind = "json"
       THEN LET text == Strip(nText)
                result == ParsedCommand(reply, text) IN
            /\ cache' = IF cache_responses
                        THEN _cache_response(cache, text, result, now)
                        ELSE cache
            /\ requests_made' = requests_made + 1
            /\ nOut' = Returned(result)
            /\ nVia' = "remote"
            /\ lastRemote' = [lastRemote EXCEPT ![nText] = [cmd |-> result, at |-> now]]
            /\ nPc' = "done"
       ELSE /\ nPc' = "fallback"
            /\ UNCHANGED <<cache, requests_made, nOut, nVia, lastRemote>>
    /\ UNCHANGED <<use_openai, cache_responses, cache_hits, nText, nFound, nlpCalls,
                   cache_file>>

\* a last line that answers with the error command instead of the fallback
NlpFallback_ErrorCommand ==
    /\ nPc = "fallback"
    /\ nOut' = Returned(Cmd("error", NoEntities, 0, FALSE, Strip(nText), "error"))
    /\ nVia' = "fallback"
    /\ nPc' = "done"
    /\ UNCHANGED <<use_openai, cache_responses, cache, requests_made, cache_hits,
                   remoteCalls, nText, nFound, lastRemote, nlpCalls, cache_file>>

\* a last line that also stores the fallback processor's command in the cache
NlpFallback_Cached ==
    /\ nPc = "fallback"
    /\ nOut' = fallback_process_command(Strip(nText))
    /\ cache' = IF cache_responses /\ nOut'.kind = "command"
                THEN _cache_response(cache, Strip(nText), nOut'.cmd, now)
                ELSE cache
    /\ nVia' = "fallback"
    /\ nPc' = "done"
    /\ UNCHANGED <<use_openai, cache_responses, requests_made, cache_hits,
                   remoteCalls, nText, nFound, lastRemote, nlpCalls, cache_file>>

\* process_command's last line: the fallback processor's result, or its exception
NlpFallback ==
    /\ nPc = "fallback"
    /\ nOut' = fallback_process_command(Strip(nText))
    /\ nVia' = "fallback"
    /\ nPc' = "done"
    /\ UNCHANGED <<use_openai, cache_responses, cache, requests_made, cache_hits,
                   remoteCalls, nText, nFound, lastRemote, nlpCalls, cache_file>>

(***************************************************************************)
(* SpecNLP: process_command called with utterances of a bounded set, under *)
(* each configuration of use_openai and cache_responses, while time passes.*)
(***************************************************************************)

\* last value of the clock, in hours
MaxNlpTime == 2

InitNLP ==
    /\ ValidatorIdle
    /\ DispatcherInit
    /\ \E openai \in BOOLEAN, caching \in BOOLEAN : NlpInit(openai, caching)
    /\ LoopInit("true", "keyboard")
    /\ now = 0

CallNlp ==
    /\ nlpCalls < MaxNlpCalls
    /\ \E text \in NlpTexts : NlpCall(text)
    /\ UNCHANGED <<validatorVars, dispatcherVars, loopVars, now>>

RemoteReturns ==
    /\ \E reply \in RemoteReplies : NlpRemote(reply)
    /\ UNCHANGED <<validatorVars, dispatcherVars, loopVars, now>>

FallbackReturns ==
    /\ NlpFallback
    /\ UNCHANGED <<validatorVars, dispatcherVars, loopVars, now>>

HourPasses ==
    /\ now < MaxNlpTime
    /\ now' = now + 1
    /\ UNCHANGED <<validatorVars, dispatcherVars, nlpVars, loopVars>>

NextNLP ==
    \/ CallNlp
    \/ RemoteReturns
    \/ FallbackReturns
    \/ HourPasses

SpecNLP == InitNLP /\ [][NextNLP]_vars

(***************************************************************************)
(* Claims on NLPProcessor (SpecNLP)                                        *)
(***************************************************************************)

\* a step in which process_command is called with text
Resolves(text) ==
    /\ nPc \in {"idle", "done"}
    /\ nlpCalls' = nlpCalls + 1
    /\ nText' = text

SameCommand(a, b) ==
    /\ a.intent = b.intent
    /\ a.entities = b.entities
    /\ a.confidence = b.confidence
    /\ a.requires_confirmation = b.requires_confirmation

(* C7: with the remote path and caching enabled, a call of process_command *)
(* on an utterance whose last remote resolution succeeded less than the    *)
(* TTL ago returns in that very step, without a remote call, a command     *)
(* with the intent, entities, confidence and requires_confirmation of that *)
(* resolution.                                                             *)
C7_SecondResolutionFromCache ==
    [][\A text \in NlpTexts :
           (/\ use_openai /\ cache_responses
            /\ Resolves(text)
            /\ lastRemote[text] # Nil
            /\ now - lastRemote[text].at < CacheTtlHours)
           => /\ nPc' = "done"
              /\ remoteCalls' = remoteCalls
              /\ nOut'.kind = "command"
              /\ SameCommand(nOut'.cmd, lastRemote[text].cmd)]_vars

C7_Witness ==
    /\ nPc = "done" /\ nVia = "cache"
    /\ lastRemote[nText] # Nil
    /\ now - lastRemote[nText].at < CacheTtlHours
    /\ remoteCalls = 1 /\ nlpCalls >= 2
    /\ SameCommand(nOut.cmd, lastRemote[nText].cmd)

C9_ExpiredEntryPurged ==
    [][\A text \in NlpTexts :
           LET key == _get_cache_key(Strip(text)) IN
           (/\ use_openai /\ cache_responses
            /\ Resolves(text)
            /\ Strip(text) # <<>>
            /\ cache[key].present
            /\ now - cache[key].created_at > cache[key].ttl_hours)
           => /\ nPc' = "remote"
              /\ nVia' # "cache"
              /\ cache_hits' = cache_hits
              /\ ~cache'[key].present]_vars

C9_Witness ==
    /\ nPc = "remote"
    /\ nFound.present
    /\ now - nFound.created_at > nFound.ttl_hours
    /\ ~cache[_get_cache_key(Strip(nText))].present

(* C10: every call of process_command that has ended has returned a        *)
(* command; none has ended with an exception.                              *)
C10_NeverRaises == nPc = "done" => nOut.kind = "command"

(* C11: a remote call that fails (exception, unparseable reply) leaves the *)
(* cache and the counters alone and hands the utterance to the fallback;   *)
(* what process_command then ends with is exactly what the fallback        *)
(* processor produces for the stripped utterance, a command tagged         *)
(* "fallback", without a further remote call; with the remote path         *)
(* disabled the remote service is never called.                            *)
C11_RemoteFailureFallsBack ==
    [][/\ (nPc = "remote" /\ remoteCalls' # remoteCalls /\ nPc' # "done") =>
              /\ nPc' = "fallback"
              /\ UNCHANGED <<cache, requests_made, cache_hits>>
       /\ (nPc = "fallback" /\ nPc' = "done") =>
              /\ nOut' = fallback_process_command(Strip(nText))
              /\ nOut'.kind = "command" => nOut'.cmd.processing_method = "fallback"
              /\ nText = <<"open", "chrome">> =>
                     nOut' = Returned(Cmd("open_app", [app_name |-> Str(<<"chrome">>)],
                                          FallbackConfidence, FALSE, nText, "fallback"))
              /\ remoteCalls' = remoteCalls
       /\ ~use_openai => remoteCalls' = 0]_vars

C11_Witness ==
    /\ use_openai
    /\ remoteCalls >= 1
    /\ nPc = "done" /\ nVia = "fallback"
    /\ nOut.kind = "command"
    /\ nOut.cmd.processing_method = "fallback"

\* a command with all four fields as a complete reply of the remote service
\* gives them
FromCompleteReply(cmd) ==
    \E reply \in RemoteReplies :
        /\ reply.kind = "json"
        /\ reply.fields = AllFields
        /\ cmd.intent = reply.intent
        /\ cmd.entities = reply.entities
        /\ cmd.confidence = reply.confidence
        /\ cmd.requires_confirmation = reply.requires_confirmation

MaxTextLen == 4

FallbackWords ==
    {"search", "cats", "on", "youtube", "tell", "me", "about", "start",
     "password", "delete", "email"}

FallbackTexts == UNION {[1..n -> FallbackWords] : n \in 1..MaxTextLen}

InitFallback ==
    /\ ValidatorIdle
    /\ DispatcherInit
    /\ NlpInit(FALSE, FALSE)
    /\ LoopInit("true", "keyboard")
    /\ now = 0

CallFallback ==
    /\ nPc = "idle"
    /\ \E text \in FallbackTexts : NlpCall(text)
    /\ UNCHANGED <<validatorVars, dispatcherVars, loopVars, now>>

NextFallback ==
    \/ CallFallback
    \/ FallbackReturns

SpecFallback == InitFallback /\ [][NextFallback]_vars

C24_NoMatchIsGeneralQuery ==
    (nPc = "done" /\ nVia = "fallback"
     /\ FirstMatch(intent_patterns(Lower(Strip(nText)))) = 0)
    => /\ nOut = Returned(Cmd("general_query", [query |-> Str(Lower(Strip(nText)))],
                              30, FALSE, Lower(Strip(nText)), "fallback"))
       /\ ~(nOut.cmd.confidence < MinConfidence)
       /\ validate_command(nOut.cmd).kind = "ok"
       /\ "general_query" \in HandlerIntents
       /\ PreCheck(nOut.cmd) = Execute

C24_Witness ==
    /\ nPc = "done"
    /\ nText = <<"cats", "on", "youtube">>
    /\ nOut.cmd.intent = "general_query"
    /\ nOut.cmd.confidence = MinConfidence
    /\ PreCheck(nOut.cmd) = Execute

(* C25: the command the fallback returns has the intent of a pattern that  *)
(* matches the utterance while no pattern before it in the order of        *)
(* intent_patterns does; "search cats on youtube" and "tell me about cats" *)
(* resolve to search_web, "start cats" to open_app; and resolving the      *)
(* utterance again gives the same result.                                  *)
C25_FirstPatternWins ==
    (nPc = "done" /\ nVia = "fallback")
    => LET ps == intent_patterns(nOut.cmd.raw_text) IN
       /\ \/ /\ nOut.cmd.intent = "general_query"
             /\ \A j \in 1..Len(ps) : ~ps[j].m.matched
          \/ \E i \in 1..Len(ps) :
                 /\ ps[i].m.matched
                 /\ ps[i].intent = nOut.cmd.intent
                 /\ \A j \in 1..(i - 1) : ~ps[j].m.matched
       /\ nText = <<"search", "cats", "on", "youtube">>
          => /\ nOut.cmd.intent = "search_web"
             /\ nOut.cmd.entities = [query |-> Str(<<"cats", "on", "youtube">>)]
       /\ nText = <<"tell", "me", "about", "cats">> => nOut.cmd.intent = "search_web"
       /\ nText = <<"start", "cats">> => nOut.cmd.intent = "open_app"
       /\ nOut = fallback_process_command(Strip(nText))

C25_Witness ==
    /\ nPc = "done"
    /\ nText = <<"search", "cats", "on", "youtube">>
    /\ nOut.cmd.intent = "search_web"
    /\ \E j \in 1..Len(intent_patterns(nText)) :
           /\ intent_patterns(nText)[j].m.matched
           /\ intent_patterns(nText)[j].intent = "search_youtube"

(* C36: the cache is written only by the step in which a remote call      *)
(* succeeds, which stores the command it returns (tagged "openai") under   *)
(* the key of the utterance, and by the deletion of an expired entry; the  *)
(* fallback's step and the empty-utterance step leave the cache as it is,  *)
(* and a call on the utterance whose previous resolution ended in the      *)
(* fallback after a remote failure goes to the remote service again.       *)
C36_OnlyRemoteResultsCached ==
    [][/\ \A k \in NlpKeys :
              cache'[k] # cache[k]
              => \/ /\ nPc = "remote" /\ nPc' = "done" /\ nVia' = "remote"
                    /\ remoteCalls' = remoteCalls + 1
                    /\ k = Lower(Strip(nText))
                    /\ nOut'.kind = "command"
                    /\ nOut'.cmd.processing_method = "openai"
                    /\ cache'[k] = Entry(nOut'.cmd, now, CacheTtlHours)
                 \/ /\ Resolves(nText')
                    /\ cache[k].present
                    /\ now - cache[k].created_at >= cache[k].ttl_hours
                    /\ cache'[k] = NoEntry
       /\ (nPc' = "done" /\ nVia' \in {"fallback", "error"}) => cache' = cache
       /\ (/\ use_openai /\ nPc = "done" /\ nVia = "fallback"
           /\ Resolves(nText))
          => (nPc' = "remote" /\ \A k \in NlpKeys : ~cache'[k].present \/ k # Lower(Strip(nText)))
      ]_vars

C36_Witness ==
    /\ use_openai /\ cache_responses
    /\ nPc = "done" /\ nVia = "fallback"
    /\ nText = <<"open", "chrome">>
    /\ nlpCalls = 2
    /\ remoteCalls = 2
    /\ \A k \in NlpKeys : ~cache[k].present

(* C32: every command process_command returns, from the remote service,   *)
(* from the cache or from the fallback, has a confidence between 0 and 1   *)
(* (0 and 100 hundredths).                                                 *)
C32_ConfidenceInRange ==
    (nPc = "done" /\ nOut.kind = "command")
    => (nOut.cmd.confidence >= 0 /\ nOut.cmd.confidence <= 100)

(***************************************************************************)
(* SpecLoad: initialize() of an NLPProcessor whose cache file holds up to  *)
(* one item per cache key, complete or lacking a member, fresh or expired. *)
(***************************************************************************)

\* an item of the file: the members it has and their values
Item(fields, created_at, ttl_hours, response) ==
    [fields |-> fields, created_at |-> created_at, ttl_hours |-> ttl_hours,
     response |-> response]

CacheItems ==
    LET all == {"created_at", "ttl_hours", "response"}
        r == Cmd("open_app", [app_name |-> Str(<<"chrome">>)], 90, FALSE,
                 <<"open", "chrome">>, "openai")
    IN
    {Item(all, 0, CacheTtlHours, r),
     Item(all, 0 - CacheTtlHours, CacheTtlHours, r),
     Item(all \ {"created_at"}, 0, CacheTtlHours, r),
     Item(all \ {"ttl_hours"}, 0, 0, r),
     Item(all \ {"response"}, 0, CacheTtlHours, Nil),
     Item(all \ {"response"}, 0 - CacheTtlHours, CacheTtlHours, Nil)}

CacheFiles ==
    {CacheFile("absent", <<>>), CacheFile("garbled", <<>>)}
    \cup
    {CacheFile("json", items) :
        items \in {f \in UNION {[1..n -> [key : NlpKeys, item : CacheItems]] :
                                   n \in 0..Cardinality(NlpKeys)} :
                       \A i, j \in 1..Len(f) : i # j => f[i].key # f[j].key}}

\* the loop of _load_cache over data.items(): a KeyError ends it (and the
\* function, in its except clause) with the cache as it is by then
RECURSIVE LoadItems(_, _, _)
LoadItems(items, c, t) ==
    IF items = <<>> THEN c
    ELSE LET key == Head(items).key
             item == Head(items).item
         IN
         IF "created_at" \notin item.fields THEN c
         ELSE IF "ttl_hours" \notin item.fields THEN c
         ELSE IF t - item.created_at < item.ttl_hours
              THEN IF "response" \notin item.fields THEN c
                   ELSE LoadItems(Tail(items),
                                  [c EXCEPT ![key] = Entry(item.response, item.created_at,
                                                           item.ttl_hours)],
                                  t)
              ELSE LoadItems(Tail(items), c, t)

\* _load_cache at time t: json.load raises on a file that is not JSON
_load_cache(file, c, t) ==
    IF file.state = "json" THEN LoadItems(file.items, c, t) ELSE c

\* NLPProcessor.initialize with OpenAI disabled: _load_cache, then True
initialize ==
    /\ nPc = "init"
    /\ cache' = _load_cache(cache_file, cache, now)
    /\ nPc' = "idle"
    /\ UNCHANGED <<use_openai, cache_responses, requests_made, cache_hits, remoteCalls,
                   nText, nOut, nVia, nFound, lastRemote, nlpCalls, cache_file>>
    /\ UNCHANGED <<validatorVars, dispatcherVars, loopVars, now>>

\* NLPProcessor.__init__ with a cache file on disk
InitLoad ==
    /\ ValidatorIdle
    /\ DispatcherInit
    /\ LoopInit("true", "keyboard")
    /\ now = 0
    /\ cache_file \in CacheFiles
    /\ use_openai = FALSE
    /\ cache_responses = TRUE
    /\ cache = [k \in NlpKeys |-> NoEntry]
    /\ requests_made = 0
    /\ cache_hits = 0
    /\ remoteCalls = 0
    /\ nPc = "init"
    /\ nText = <<>>
    /\ nOut = Nil
    /\ nVia = "none"
    /\ nFound = NoEntry
    /\ lastRemote = [t \in NlpTexts |-> Nil]
    /\ nlpCalls = 0

NextLoad == initialize

SpecLoad == InitLoad /\ [][NextLoad]_vars

(* C31: after initialize has returned, every item of the cache file that   *)
(* has all its members and is not expired is in the cache under its key,   *)
(* whatever other items the file holds and wherever they stand in it.      *)
C31_MalformedItemSkipped ==
    (nPc = "idle" /\ cache_file.state = "json")
    => \A i \in 1..Len(cache_file.items) :
           LET key == cache_file.items[i].key
               item == cache_file.items[i].item
           IN
           (/\ item.fields = {"created_at", "ttl_hours", "response"}
            /\ now - item.created_at < item.ttl_hours)
           => cache[key] = Entry(item.response, item.created_at, item.ttl_hours)

(***************************************************************************)
(* EventLoop: the two producers, the shared command queue and the consumer *)
(* (_main_processing_loop)                                                 *)
(***************************************************************************)

\* capacity of command_queue, scaled down from the code's maxsize of 100
QueueMaxSize == 2

\* number of utterances the producers hear
MaxUtterances == 3

\* the utterances recognize_speech returns to the producers
LoopTexts == {<<"open", "chrome">>, <<"shutdown", "the", "computer">>}

\* the CommandQueue item a producer builds
CommandQueue(text, source) == [text |-> text, source |-> source]

\* an item in command_queue: id is its number in the order of the additions,
\* waited tells whether its producer found the queue full first
Queued(item, id, waited) ==
    [text |-> item.text, source |-> item.source, id |-> id, waited |-> waited]

producerVars == <<pPc, pItem, heard>>

stopVars == <<stop_event, hotkey_thread, loop_shutdown>>

queueVars == <<command_queue, enqueued, dropped, busySpoken>>

consumerVars == <<processing_command, commands_processed, loop_commands_failed,
                  cPc, cItem, cResult, feedback, processed>>

\* a queue that never counts as full
Full_Never(q) == FALSE

\* queue.Queue: the test put makes before it adds an item
Full(q) == Len(q) >= QueueMaxSize

\* a get that takes the item put last
Dequeued_Last(q) == [item |-> q[Len(q)], rest |-> SubSeq(q, 1, Len(q) - 1)]

\* queue.Queue.get: the item put first, and the queue that remains
Dequeued(q) == [item |-> Head(q), rest |-> Tail(q)]

\* a producer recognises an utterance: the wake-word loop after the wake word,
\* in an iteration that found the stop event clear; the hotkey callback after
\* the key press, which the keyboard library delivers for as long as the
\* hotkey is registered (on_press of the pynput listener raises AttributeError
\* on keyboard.is_pressed and activates nothing); both only while no command
\* is being processed
Listen(src) ==
    /\ pPc[src] = "listen"
    /\ IF src = "wake_word" THEN ~stop_event ELSE hotkey_thread = "wait"
    /\ ~processing_command
    /\ heard < MaxUtterances
    /\ heard' = heard + 1
    /\ \E text \in LoopTexts : pItem' = [pItem EXCEPT ![src] = CommandQueue(text, src)]
    /\ pPc' = [pPc EXCEPT ![src] = "put"]
    /\ UNCHANGED <<validatorVars, dispatcherVars, nlpVars, queueVars, consumerVars,
                   sensitive_commands_hotkey_only,
                   stopVars, now>>

\* command_queue.put(item, timeout=1) with room in the queue: the item is added
Put(src) ==
    /\ pPc[src] = "put"
    /\ ~Full(command_queue)
    /\ command_queue' = Append(command_queue, Queued(pItem[src], enqueued + 1, FALSE))
    /\ enqueued' = enqueued + 1
    /\ pPc' = [pPc EXCEPT ![src] = "listen"]
    /\ pItem' = [pItem EXCEPT ![src] = Nil]
    /\ UNCHANGED <<validatorVars, dispatcherVars, nlpVars, consumerVars, heard,
                   dropped, busySpoken, sensitive_commands_hotkey_only,
                   stopVars, now>>

\* command_queue.put(item, timeout=1) with the queue full: the producer waits
PutBlocks(src) ==
    /\ pPc[src] = "put"
    /\ Full(command_queue)
    /\ pPc' = [pPc EXCEPT ![src] = "put_wait"]
    /\ UNCHANGED <<validatorVars, dispatcherVars, nlpVars, consumerVars, heard,
                   pItem, queueVars, sensitive_commands_hotkey_only,
                   stopVars, now>>

\* the waiting put is woken by a get within the second: the item is added
PutAfterWait(src) ==
    /\ pPc[src] = "put_wait"
    /\ ~Full(command_queue)
    /\ command_queue' = Append(command_queue, Queued(pItem[src], enqueued + 1, TRUE))
    /\ enqueued' = enqueued + 1
    /\ pPc' = [pPc EXCEPT ![src] = "listen"]
    /\ pItem' = [pItem EXCEPT ![src] = Nil]
    /\ UNCHANGED <<validatorVars, dispatcherVars, nlpVars, consumerVars, heard,
                   dropped, busySpoken, sensitive_commands_hotkey_only,
                   stopVars, now>>

\* the second elapses with the queue still full: put raises queue.Full, the
\* item is dropped and the producer speaks the busy message
PutTimeout(src) ==
    /\ pPc[src] = "put_wait"
    /\ Full(command_queue)
    /\ dropped' = dropped + 1
    /\ busySpoken' = busySpoken + 1
    /\ pPc' = [pPc EXCEPT ![src] = "listen"]
    /\ pItem' = [pItem EXCEPT ![src] = Nil]
    /\ UNCHANGED <<validatorVars, dispatcherVars, nlpVars, consumerVars, heard,
                   command_queue, enqueued, sensitive_commands_hotkey_only,
                   stopVars, now>>

\* _main_processing_loop takes an item; _process_command takes its text, sets
\* processing_command and calls NLPProcessor.process_command
LoopGet ==
    /\ cPc = "get"
    /\ ~stop_event
    /\ command_queue # <<>>
    /\ LET d == Dequeued(command_queue) IN
       /\ command_queue' = d.rest
       /\ cItem' = d.item
       /\ processed' = Append(processed, d.item.id)
       /\ NlpCall(d.item.text)
    /\ processing_command' = TRUE
    /\ cPc' = "nlp"
    /\ UNCHANGED <<validatorVars, dispatcherVars, producerVars, enqueued,
                   dropped, busySpoken, commands_processed, loop_commands_failed,
                   cResult, feedback, sensitive_commands_hotkey_only,
                   stopVars, now>>

\* process_command goes on to the fallback processor
LoopFallback ==
    /\ cPc = "nlp"
    /\ NlpFallback
    /\ UNCHANGED <<validatorVars, dispatcherVars, loopVars, now>>

\* _process_command goes on to dispatch_command
Dispatch == [success |-> FALSE, error |-> None, origin |-> "dispatch"]

\* _process_command between process_command and dispatch_command: the
\* ExecutionResult of its except clause when process_command raised or the
\* attribute read failed, the refusal of a sensitive command heard after the
\* wake word, or Dispatch
BeforeDispatch(out, source, hotkey_only) ==
    IF out.kind = "raise" THEN Result(FALSE, out.error, "loop_except")
    ELSE IF out.cmd.requires_confirmation /\ source = "wake_word"
         THEN IF hotkey_only = "unset"
              THEN Result(FALSE, "AttributeError", "loop_except")
              ELSE IF hotkey_only = "true"
              THEN Result(FALSE, "Sensitive command from wake word", "hotkey_only")
              ELSE Dispatch
    ELSE Dispatch

\* _process_command once process_command has ended: an early return (with the
\* finally clause) or the call of dispatch_command
LoopDispatch ==
    /\ cPc = "nlp"
    /\ nPc = "done"
    /\ LET pre == BeforeDispatch(nOut, cItem.source, sensitive_commands_hotkey_only) IN
       IF pre = Dispatch
       THEN /\ dispatch_command(nOut.cmd)
            /\ cPc' = "dispatching"
            /\ UNCHANGED <<nCalls, history_lock, processing_command,
                           loop_commands_failed, cResult>>
       ELSE /\ cResult' = pre
            /\ loop_commands_failed' =
                   IF pre.origin = "loop_except" THEN loop_commands_failed + 1
                   ELSE loop_commands_failed
            /\ processing_command' = FALSE
            /\ cPc' = "feedback"
            /\ UNCHANGED <<dispatcherVars, nlpVars, now>>
    /\ UNCHANGED <<validatorVars, producerVars, queueVars, commands_processed,
                   cItem, feedback, processed, sensitive_commands_hotkey_only,
                   stopVars>>

\* dispatch_command has returned: the statistics, the finally clause, the return
LoopReturn ==
    /\ cPc = "dispatching"
    /\ dPc = "returned"
    /\ commands_processed' = commands_processed + 1
    /\ loop_commands_failed' =
           IF dResult.success THEN loop_commands_failed ELSE loop_commands_failed + 1
    /\ cResult' = dResult
    /\ processing_command' = FALSE
    /\ cPc' = "feedback"
    /\ UNCHANGED <<validatorVars, dispatcherVars, nlpVars, producerVars, queueVars,
                   cItem, feedback, processed, sensitive_commands_hotkey_only,
                   stopVars, now>>

\* str.lower() and the words of an error text
LowerWords(error) ==
    CASE error = "Confirmation required" -> <<"confirmation", "required">>
      [] error = "Command timeout" -> <<"command", "timeout">>
      [] error = "Sensitive command from wake word" ->
             <<"sensitive", "command", "from", "wake", "word">>
      [] OTHER -> <<error>>

\* "phrase in words"
HasPhrase(phrase, words) ==
    \E i \in 0..(Len(words) - Len(phrase)) : SubSeq(words, i + 1, i + Len(phrase)) = phrase

\* _provide_command_feedback(result): what is spoken, or the AttributeError of
\* None.lower()
_provide_command_feedback(result) ==
    IF result.success THEN "message"
    ELSE IF result.error = None THEN "raise"
    ELSE IF HasPhrase(<<"requires", "confirmation">>, LowerWords(result.error))
         THEN "confirm"
    ELSE "sorry"

\* _main_processing_loop after _process_command: the feedback, task_done (or
\* the except clause of the loop), and back to get
LoopFeedback ==
    /\ cPc = "feedback"
    /\ feedback' = _provide_command_feedback(cResult)
    /\ cResult' = Nil
    /\ cItem' = Nil
    /\ cPc' = "get"
    /\ UNCHANGED <<validatorVars, dispatcherVars, nlpVars, producerVars, queueVars,
                   processing_command, commands_processed, loop_commands_failed,
                   processed, sensitive_commands_hotkey_only,
                   stopVars, now>>

\* stop_processing: running, stop_event and listening_for_wake_word are set
\* for the loops to see; the joins return after their timeout at the latest
stop_processing ==
    /\ ~stop_event
    /\ stop_event' = TRUE
    /\ UNCHANGED <<validatorVars, dispatcherVars, nlpVars, producerVars, queueVars,
                   consumerVars, sensitive_commands_hotkey_only, hotkey_thread,
                   loop_shutdown, now>>

\* _wake_word_detection_loop finds the stop event set at the top of an iteration
WakeWordStops ==
    /\ pPc["wake_word"] = "listen"
    /\ stop_event
    /\ pPc' = [pPc EXCEPT !["wake_word"] = "stopped"]
    /\ UNCHANGED <<validatorVars, dispatcherVars, nlpVars, pItem, heard, queueVars,
                   consumerVars, sensitive_commands_hotkey_only, stopVars, now>>

\* _hotkey_listener_loop, in "while self.running and not stop_event.is_set()",
\* finds the stop event set; the loop is reached only when the setup returned
HotkeyStops ==
    /\ hotkey_thread = "alive"
    /\ stop_event
    /\ hotkey_thread' = "stopped"
    /\ UNCHANGED <<validatorVars, dispatcherVars, nlpVars, producerVars, queueVars,
                   consumerVars, sensitive_commands_hotkey_only, stop_event,
                   loop_shutdown, now>>

\* _main_processing_loop finds the stop event set at the top of an iteration
ConsumerStops ==
    /\ cPc = "get"
    /\ stop_event
    /\ cPc' = "stopped"
    /\ UNCHANGED <<validatorVars, dispatcherVars, nlpVars, producerVars, queueVars,
                   processing_command, commands_processed, loop_commands_failed,
                   cItem, cResult, feedback, processed,
                   sensitive_commands_hotkey_only, stopVars, now>>

(***************************************************************************)
(* SpecLoop: the event loop running without the OpenAI client (resolution  *)
(* by the fallback processor), under each state of the attribute           *)
(* privacy.sensitive_commands_hotkey_only.                                 *)
(***************************************************************************)

InitLoop ==
    /\ ValidatorIdle
    /\ DispatcherInit
    /\ NlpInit(FALSE, FALSE)
    /\ \E hotkey_only \in {"unset", "true", "false"} : LoopInit(hotkey_only, "keyboard")
    /\ now = 0

NextLoop ==
    \/ \E src \in Sources : Listen(src)
    \/ \E src \in Sources : Put(src)
    \/ \E src \in Sources : PutBlocks(src)
    \/ \E src \in Sources : PutAfterWait(src)
    \/ \E src \in Sources : PutTimeout(src)
    \/ LoopGet
    \/ LoopFallback
    \/ LoopDispatch
    \/ LoopReturn
    \/ LoopFeedback
    \/ HandlerFinish
    \/ FutureResult
    \/ FutureTimeout
    \/ ExecutorExit
    \/ RecordAndReturn

SpecLoop == InitLoop /\ [][NextLoop]_vars

(***************************************************************************)
(* SpecStop: the event loop as main.py configures it, with either hotkey   *)
(* library, and stop_processing called at any moment.                      *)
(***************************************************************************)

HotkeyLibraries == {"keyboard", "pynput"}

InitStop ==
    /\ ValidatorIdle
    /\ DispatcherInit
    /\ NlpInit(FALSE, FALSE)
    /\ \E library \in HotkeyLibraries : LoopInit("unset", library)
    /\ now = 0

NextStop ==
    \/ NextLoop
    \/ stop_processing
    \/ WakeWordStops
    \/ HotkeyStops
    \/ ConsumerStops

SpecStop == InitStop /\ [][NextStop]_vars

(***************************************************************************)
(* SpecShutdown: SpecStop with the rest of EventLoop.shutdown.             *)
(***************************************************************************)

\* EventLoop.shutdown after stop_processing has returned (its joins wait two
\* seconds at most for threads that may still be listening): the queue is
\* emptied with get_nowait and shutdown returns; loop_shutdown records that
EventLoopShutdown ==
    /\ stop_event
    /\ ~loop_shutdown
    /\ command_queue' = <<>>
    /\ loop_shutdown' = TRUE
    /\ UNCHANGED <<validatorVars, dispatcherVars, nlpVars, producerVars, consumerVars,
                   enqueued, dropped, busySpoken, sensitive_commands_hotkey_only,
                   stop_event, hotkey_thread, now>>

NextShutdown ==
    \/ NextStop
    \/ EventLoopShutdown

SpecShutdown == InitStop /\ [][NextShutdown]_vars

(* C35: once EventLoop.shutdown has returned, the command queue is empty   *)
(* and no command is being dispatched, in every state that follows.        *)
C35_NothingAfterShutdown ==
    loop_shutdown
    => /\ command_queue = <<>>
       /\ dPc \notin {"waiting", "exiting", "recording"}

(***************************************************************************)
(* Claims on the event loop (SpecLoop)                                     *)
(***************************************************************************)

(* C4: at most one handler invocation is running at any time; a handler    *)
(* runs only while the consumer is inside dispatch_command for the command *)
(* it was started for, so when the handler of the next dequeued command    *)
(* starts, also after a timeout, the previous one has finished.            *)
C4_OneHandlerAtATime ==
    /\ Cardinality(running) <= 1
    /\ running # {} => (running = {curInv} /\ cPc = "dispatching"
                        /\ dPc \in {"waiting", "exiting"})

C4_Witness ==
    /\ curInv >= 2
    /\ curInv \in running
    /\ \E i \in 1..Len(command_history) : command_history[i].result = TimeoutResult

(* C5: the utterances are taken by the consumer in the order in which they *)
(* were added to the queue, whichever producer added them: those taken,    *)
(* followed by those still in the queue, are the first, the second, ...    *)
(* addition.                                                               *)
C5_FifoOrder ==
    processed \o [i \in 1..Len(command_queue) |-> command_queue[i].id]
        = [i \in 1..enqueued |-> i]

C5_Witness ==
    /\ Len(command_queue) = 2
    /\ command_queue[1].source # command_queue[2].source
    /\ Len(processed) >= 1
    /\ cItem # Nil /\ cItem.id = processed[Len(processed)]
    /\ cItem.source = command_queue[2].source

C13_ConfirmationRecorded ==
    (cPc = "dispatching" /\ dPc = "returned" /\ dResult = ConfirmationResult)
    => \E i \in 1..Len(command_history) :
           command_history[i] = [command |-> dCmd, result |-> ConfirmationResult]

(* C13 amended: "shutdown the computer" resolved by the fallback is         *)
(* shutdown_system with requires_confirmation = true; dispatch_command     *)
(* returns the confirmation-needed result for it without invoking a        *)
(* handler and leaves command_history as it was: no entry of the history   *)
(* ever holds the result "Confirmation required".                          *)
C13_ConfirmationNotRecorded ==
    [][/\ (cPc = "nlp" /\ nPc = "fallback" /\ nPc' = "done"
           /\ nText = <<"shutdown", "the", "computer">>)
          => nOut' = Returned(Cmd("shutdown_system", NoEntities, FallbackConfidence,
                                  TRUE, nText, "fallback"))
       /\ (cPc = "nlp" /\ cPc' = "dispatching" /\ nOut.cmd.intent = "shutdown_system")
          => /\ dCmd' = nOut.cmd
             /\ dPc' = "returned"
             /\ dResult' = ConfirmationResult
             /\ invoked' = invoked
             /\ command_history' = command_history
       /\ \A i \in 1..Len(command_history') :
              command_history'[i].result.error # "Confirmation required"]_vars

C13_Witness ==
    /\ cPc = "dispatching"
    /\ dPc = "returned"
    /\ dCmd.raw_text = <<"shutdown", "the", "computer">>
    /\ dCmd.processing_method = "fallback"
    /\ dResult = ConfirmationResult
    /\ \E i \in 1..Len(command_history) : command_history[i].result.success

(* C14: "open chrome" resolved by the fallback is open_app with            *)
(* app_name "chrome", confidence 0.7 and requires_confirmation = false;    *)
(* the command passes validation, dispatch_command invokes the handler     *)
(* once, neither more nor less, and when the result is a success the pair  *)
(* of the command and this result is appended to command_history.          *)
C14_OpenChromeEndToEnd ==
    [][LET open_chrome == Cmd("open_app", [app_name |-> Str(<<"chrome">>)],
                              FallbackConfidence, FALSE, <<"open", "chrome">>,
                              "fallback")
       IN
       /\ (cPc = "nlp" /\ nPc = "fallback" /\ nPc' = "done"
           /\ nText = <<"open", "chrome">>)
          => nOut' = Returned(open_chrome)
       /\ (cPc = "nlp" /\ cPc' = "dispatching" /\ nOut.cmd = open_chrome)
          => /\ validate_command(open_chrome).kind = "ok"
             /\ dCmd' = open_chrome
             /\ dPc' = "waiting"
             /\ invoked' = Append(invoked, open_chrome)
       /\ cPc = "dispatching" => invoked' = invoked
       /\ (dPc = "recording" /\ dPc' = "returned" /\ dCmd = open_chrome
           /\ dResult.success)
          => LET n == Len(command_history') IN
             /\ n >= 1
             /\ command_history'[n] = [command |-> open_chrome, result |-> dResult]
             /\ dResult' = dResult
             /\ SubSeq(command_history', 1, n - 1) =
                    SubSeq(command_history, Len(command_history) - n + 2,
                           Len(command_history))]_vars

C14_Witness ==
    /\ cPc = "feedback"
    /\ cResult.success
    /\ dCmd.raw_text = <<"open", "chrome">>
    /\ Len(invoked) = 1
    /\ command_history = <<[command |-> dCmd, result |-> cResult]>>

(* C18: when the utterance came from the wake word, resolved to a command  *)
(* with requires_confirmation = true and the hotkey-only policy is on (the *)
(* configuration's default, or the attribute set to true), _process_command *)
(* does not call dispatch_command and returns the result with the error    *)
(* "Sensitive command from wake word".                                     *)
C18_SensitiveWakeWordRejected ==
    (/\ cPc = "feedback"
     /\ cItem.source = "wake_word"
     /\ nOut.kind = "command"
     /\ nOut.cmd.requires_confirmation
     /\ sensitive_commands_hotkey_only # "false")
    => /\ cResult = Result(FALSE, "Sensitive command from wake word", "hotkey_only")
       /\ \A i \in 1..Len(invoked) : ~invoked[i].requires_confirmation

(* C20: when the processing of a dequeued utterance has ended in a failed  *)
(* result, the consumer's return to the queue goes through one spoken      *)
(* message, the confirmation prompt or the apology.                        *)
C20_FailureIsSpoken ==
    [][(cPc = "feedback" /\ cPc' = "get" /\ ~cResult.success)
       => feedback' \in {"confirm", "sorry"}]_vars

(* C37: when the consumer gives the feedback for an utterance heard after  *)
(* the hotkey for which dispatch_command returned the confirmation-needed  *)
(* result, what is spoken is the confirmation prompt.                      *)
C37_ConfirmationPromptSpoken ==
    [][(/\ cPc = "feedback" /\ cPc' = "get"
        /\ cItem.source = "hotkey"
        /\ cResult = ConfirmationResult)
       => feedback' = "confirm"]_vars

(***************************************************************************)
(* Claims on stopping (SpecStop)                                           *)
(***************************************************************************)

(* C39: in the event loop's statistics the number of failed commands      *)
(* never exceeds the number of processed commands.                         *)
C39_FailedWithinProcessed == loop_commands_failed <= commands_processed

(* C19: once stop_processing has set the stop event, each loop that has    *)
(* not terminated yet comes to test it: the wake-word loop and the         *)
(* consumer loop at the top of their next iteration, and the hotkey        *)
(* listener thread, which is stopped or can take the step that finds the   *)
(* event set.                                                              *)
C19_EveryLoopObservesStop ==
    stop_event =>
        /\ pPc["wake_word"] = "listen" => ENABLED WakeWordStops
        /\ cPc = "get" => ENABLED ConsumerStops
        /\ hotkey_thread = "stopped" \/ ENABLED HotkeyStops

====
